---------------------------- MODULE Spec2Model ----------------------------
(***************************************************************************)
(* USDC yield optimizer: the vault ledger (USDCYieldVault), the yield      *)
(* source adapters it forwards to (ManipulableMockAdapter semantics) and   *)
(* the session key registry (SessionKeyManager).                           *)
(*                                                                         *)
(* Every external call of a contract is one action.  A call computes its   *)
(* effects step by step on a record of the contract state and yields       *)
(* [err, s]: the error signal ("none" on success) and the state it has     *)
(* written.  A call that reverts leaves no trace on chain: the EVM         *)
(* discards what it had written (Commit), so a failed call is a step that  *)
(* changes nothing, and what a call would answer in a state is the value   *)
(* of its operator there.                                                  *)
(*                                                                         *)
(* The vault and the registry never call each other; Spec runs the vault   *)
(* with its adapters, RegistrySpec runs the registry.                      *)
(***************************************************************************)
EXTENDS Integers, Sequences, FiniteSets, TLC

(***************************************************************************)
(* Bounds of the model                                                     *)
(***************************************************************************)
\* largest amount of assets or shares passed to one call
MaxAmount == 1
\* USDC the depositor holds at deployment
InitialWallet == MaxAmount
\* USDC the depositor holds at deployment where a second deposit must be
\* affordable after a first one of MaxAmount (FundedSpec)
FundedWallet == MaxAmount + 1
\* highest block number at which a call executes (block.number is read by
\* rebalance only, so it is an input of that call)
MaxBlock == 1
\* number of times an adapter's reported balance is moved from outside
\* (yield accrued, funds lost)
MaxFaults == 1
\* highest block timestamp the chain reaches
MaxTime == 2
\* number of grants the registry stores
MaxGrants == 1
\* largest transaction budget given to a grant
MaxTx == 1
\* number of start() requests made to the keeper daemon
MaxCalls == 2

(***************************************************************************)
(* Program constants                                                       *)
(***************************************************************************)
MIN_REBALANCE_THRESHOLD == 30
MAX_GAS_COST_THRESHOLD == 10

\* enum Protocol { AAVE, MORPHO, MOONWELL }
Protocols == {0, 1, 2}

\* address(0)
NULL == "0x0"
\* the vault owner (deployer), who may hold shares like anyone, and a depositor
Owner == "owner"
Accounts == {"owner", "u1"}
Vault == "vault"
\* the three deployed adapter instances, one per protocol
AdapterAddrs == {"a0", "a1", "a2"}
AdapterFor(p) == IF p = 0 THEN "a0" ELSE IF p = 1 THEN "a1" ELSE "a2"

Amounts == 0..MaxAmount
\* caller-supplied figures <<expectedGain, gasCost>> offered to the
\* reallocation gate: passing, and failing one threshold by one
Offers == {<<30, 10>>, <<29, 10>>, <<30, 11>>}
\* <<_shouldFailDeposit, _shouldFailWithdraw>> as a rebalance meets them
Moods == {<<FALSE, FALSE>>, <<TRUE, FALSE>>, <<FALSE, TRUE>>}
\* _slippagePercent values (out of 10000) an adapter is set to: none, one half
Slips == {0, 5000}

VARIABLES
    \* ---- USDCYieldVault ----
    activeProtocol,       \* Protocol currently holding the funds
    adapters,             \* Protocol -> adapter address or NULL
    lastRebalanceBlock,
    paused,
    principalDeposited,   \* account -> principal
    totalPrincipal,
    shareBalance,         \* ERC20 balances of the vault share token
    status,               \* ReentrancyGuard._status
    frame,                \* the vault call in flight while it calls out, if any
    \* ---- asset token and adapters ----
    usdcBalance,          \* holder -> USDC balance
    adapterBalance,       \* adapter -> _balance it reports
    faults,               \* adapter manipulations injected so far
    \* ---- SessionKeyManager ----
    sessionKeys,          \* keyId -> SessionKeyData
    userSessionKeys,      \* account -> sequence of keyIds
    now,                  \* block.timestamp
    \* ---- KeeperDaemon ----
    daemon,               \* the daemon object: isRunning, intervalId
    runtime               \* its event loop: live timers, start() calls in flight

vaultVars == <<activeProtocol, adapters, lastRebalanceBlock, paused,
               principalDeposited, totalPrincipal, shareBalance,
               status, frame, usdcBalance, adapterBalance, faults>>
registryVars == <<sessionKeys, userSessionKeys, now>>
daemonVars == <<daemon, runtime>>
vars == <<activeProtocol, adapters, lastRebalanceBlock, paused,
          principalDeposited, totalPrincipal, shareBalance,
          status, frame, usdcBalance, adapterBalance, faults,
          sessionKeys, userSessionKeys, now, daemon, runtime>>

\* block numbers at which the next call can execute: the vault is deployed
\* in block 0 and block numbers never decrease
Blocks == {b \in 1..MaxBlock : b >= lastRebalanceBlock}

Holders == Accounts \cup {Vault} \cup AdapterAddrs

RECURSIVE SumOver(_, _)
SumOver(f, S) == IF S = {} THEN 0
                 ELSE LET x == CHOOSE y \in S : TRUE
                      IN f[x] + SumOver(f, S \ {x})

CeilDiv(a, b) == (a + b - 1) \div b

(***************************************************************************)
(* The vault world as one record, so that a call can be computed step by   *)
(* step and discarded as a whole when a step reverts.  failD and failW are *)
(* the adapters' _shouldFailDeposit and _shouldFailWithdraw as they stand  *)
(* when the call is made: the adapter owner sets them at will between      *)
(* calls, so each call meets an arbitrary value.  slip is the adapters'    *)
(* _slippagePercent, zero unless the call is made under Slipping.  log is  *)
(* the Rebalance event the call has emitted, if any.                       *)
(***************************************************************************)
World(failD, failW) == [active |-> activeProtocol, adapters |-> adapters,
        lastReb |-> lastRebalanceBlock, paused |-> paused,
        principal |-> principalDeposited, totalPrincipal |-> totalPrincipal,
        shares |-> shareBalance, usdc |-> usdcBalance,
        abal |-> adapterBalance, failD |-> failD, failW |-> failW, slip |-> 0,
        log |-> <<>>]

Cur == World(FALSE, FALSE)

\* the world as a call meets it after setSlippage(slippagePercent)
Slipping(s, slippagePercent) == [s EXCEPT !.slip = slippagePercent]

Ok(s) == [err |-> "none", s |-> s]
Fail(e, s) == [err |-> e, s |-> s]

\* ERC20 transfer of the asset token: reverts on insufficient balance
TokenTransfer(s, from, to, amt) ==
    IF s.usdc[from] < amt THEN Fail("ERC20InsufficientBalance", s)
    ELSE IF from = to THEN Ok(s)
    ELSE Ok([s EXCEPT !.usdc = [@ EXCEPT ![from] = @ - amt, ![to] = @ + amt]])

TotalSupply(s) == SumOver(s.shares, Accounts)


(***************************************************************************)
(* Yield source adapter (ManipulableMockAdapter, not under attack, no      *)
(* deposit limit).  The caller is always the vault, so onlyVault passes.   *)
(***************************************************************************)
\* what is left of amount after _slippagePercent
AfterSlippage(s, amount) == (amount * (10000 - s.slip)) \div 10000

\* adapter.deposit(amount)
AdapterDeposit(s, a, amount) ==
    IF a = NULL THEN Fail("CallToNonContract", s)
    ELSE IF s.failD THEN Fail("ForcedDepositFailure", s)
    ELSE LET t == TokenTransfer(s, Vault, a, amount)
             effectiveAmount == AfterSlippage(s, amount)
         IN IF t.err # "none" THEN t
            ELSE Ok([t.s EXCEPT !.abal = [@ EXCEPT ![a] = @ + effectiveAmount]])

\* adapter.withdraw(amount)
AdapterWithdraw(s, a, amount) ==
    IF a = NULL THEN Fail("CallToNonContract", s)
    ELSE IF s.failW THEN Fail("ForcedWithdrawFailure", s)
    ELSE IF s.abal[a] < amount THEN Fail("InsufficientBalance", s)
    ELSE LET actualAmount == AfterSlippage(s, amount)
         IN TokenTransfer([s EXCEPT !.abal = [@ EXCEPT ![a] = @ - amount]],
                          a, Vault, actualAmount)

\* adapter.balanceOf(vault)
AdapterBalanceOf(s, a) == s.abal[a]

\* adapter.emergencyWithdraw() by the adapter owner (TestnetAaveAdapter): the
\* whole recorded balance is sent to the vault and the record is cleared
AdapterEmergencyWithdraw(s, a) ==
    IF s.abal[a] > 0
    THEN LET currentBalance == s.abal[a]
         IN TokenTransfer([s EXCEPT !.abal = [@ EXCEPT ![a] = 0]],
                          a, Vault, currentBalance)
    ELSE Ok(s)

(***************************************************************************)
(* USDCYieldVault                                                          *)
(***************************************************************************)
\* _depositToProtocol as it would be with the adapter call wrapped in a
\* try/catch: a failing adapter is skipped and the assets stay idle
DepositToProtocolTolerant(s, amount) ==
    LET d == AdapterDeposit(s, s.adapters[s.active], amount)
    IN IF d.err # "none" THEN Ok(s) ELSE d

\* _withdrawFromProtocol as it would be with the adapter call wrapped in a
\* try/catch: a failing adapter is skipped and the payout comes from idle assets
WithdrawFromProtocolTolerant(s, amount) ==
    LET w == AdapterWithdraw(s, s.adapters[s.active], amount)
    IN IF w.err # "none" THEN Ok(s) ELSE w

\* _depositToProtocol(amount)
DepositToProtocol(s, amount) ==
    AdapterDeposit(s, s.adapters[s.active], amount)

\* _withdrawFromProtocol(amount)
WithdrawFromProtocol(s, amount) ==
    AdapterWithdraw(s, s.adapters[s.active], amount)

\* totalAssets(): idle balance plus the active adapter's reported balance
TotalAssets(s) ==
    LET idleAssets == s.usdc[Vault]
        adapter == s.adapters[s.active]
    IN IF adapter = NULL THEN idleAssets
       ELSE idleAssets + AdapterBalanceOf(s, adapter)

\* share pricing as it would be without the virtual share and asset of
\* ERC4626: pro rata to the supply, one to one while either side is empty
SharesProportional(s, assets) ==
    IF TotalSupply(s) = 0 \/ TotalAssets(s) = 0 THEN assets
    ELSE (assets * TotalSupply(s)) \div TotalAssets(s)

\* share redemption value as it would be without the virtual share and asset
AssetsProportional(s, shares) ==
    IF TotalSupply(s) = 0 THEN shares
    ELSE (shares * TotalAssets(s)) \div TotalSupply(s)

\* ERC4626 _convertToShares / _convertToAssets (decimals offset 0)
ConvertToSharesFloor(s, assets) ==
    (assets * (TotalSupply(s) + 1)) \div (TotalAssets(s) + 1)
ConvertToSharesCeil(s, assets) ==
    CeilDiv(assets * (TotalSupply(s) + 1), TotalAssets(s) + 1)
ConvertToAssetsFloor(s, shares) ==
    (shares * (TotalAssets(s) + 1)) \div (TotalSupply(s) + 1)
ConvertToAssetsCeil(s, shares) ==
    CeilDiv(shares * (TotalAssets(s) + 1), TotalSupply(s) + 1)

\* ERC4626.deposit as it would be with the share count rounded up
SuperDepositRoundingUp(s, caller, assets, receiver) ==
    LET shares == ConvertToSharesCeil(s, assets)
        t == TokenTransfer(s, caller, Vault, assets)
    IN IF t.err # "none" THEN t
       ELSE Ok([t.s EXCEPT !.shares = [@ EXCEPT ![receiver] = @ + shares]])

\* ERC4626.deposit as called by super.deposit(assets, receiver)
SuperDeposit(s, caller, assets, receiver) ==
    LET shares == ConvertToSharesFloor(s, assets)
        t == TokenTransfer(s, caller, Vault, assets)
    IN IF t.err # "none" THEN t
       ELSE Ok([t.s EXCEPT !.shares = [@ EXCEPT ![receiver] = @ + shares]])

\* deposit as it would be without the totalPrincipal update of line 85
DepositWithoutTotal(s, caller, assets, receiver) ==
    IF s.paused THEN Fail("EnforcedPause", s)
    ELSE LET d == SuperDeposit(s, caller, assets, receiver)
         IN IF d.err # "none" THEN d
            ELSE DepositToProtocol(
                   [d.s EXCEPT !.principal = [@ EXCEPT ![receiver] = @ + assets]],
                   assets)

\* the head of deposit as it would be if the principal were booked to the
\* caller instead of the receiver
DepositHeadCreditingCaller(s, caller, assets, receiver) ==
    IF s.paused THEN Fail("EnforcedPause", s)
    ELSE LET d == SuperDeposit(s, caller, assets, receiver)
         IN IF d.err # "none" THEN d
            ELSE Ok([d.s EXCEPT !.principal = [@ EXCEPT ![caller] = @ + assets],
                                !.totalPrincipal = @ + assets])

\* deposit up to its call out to the adapter (lines 79-85)
DepositHead(s, caller, assets, receiver) ==
    IF s.paused THEN Fail("EnforcedPause", s)
    ELSE LET d == SuperDeposit(s, caller, assets, receiver)
         IN IF d.err # "none" THEN d
            ELSE Ok([d.s EXCEPT !.principal = [@ EXCEPT ![receiver] = @ + assets],
                                !.totalPrincipal = @ + assets])

\* deposit as it would be without the forwarding of line 88: the assets stay
\* idle in the vault
DepositLeavingFundsIdle(s, caller, assets, receiver) ==
    DepositHead(s, caller, assets, receiver)

\* deposit(assets, receiver), after the modifiers
VaultDeposit(s, caller, assets, receiver) ==
    LET h == DepositHead(s, caller, assets, receiver)
    IN IF h.err # "none" THEN h ELSE DepositToProtocol(h.s, assets)

\* ERC4626.withdraw as called by super.withdraw(assets, receiver, owner)
SuperWithdraw(s, caller, assets, receiver, owner) ==
    LET maxAssets == ConvertToAssetsFloor(s, s.shares[owner])
        shares == ConvertToSharesCeil(s, assets)
    IN IF assets > maxAssets THEN Fail("ERC4626ExceededMaxWithdraw", s)
       ELSE IF caller # owner /\ shares > 0
            THEN Fail("ERC20InsufficientAllowance", s)
       ELSE IF s.shares[owner] < shares THEN Fail("ERC20InsufficientBalance", s)
       ELSE TokenTransfer([s EXCEPT !.shares = [@ EXCEPT ![owner] = @ - shares]],
                          Vault, receiver, assets)

\* the tail of withdraw as it would be without the principal update of
\* lines 106-108
WithdrawTailKeepingPrincipal(s, shares, caller, assets, receiver, owner) ==
    IF s.shares[owner] = 0 THEN Fail("DivisionByZero", s)
    ELSE SuperWithdraw(s, caller, assets, receiver, owner)

\* withdraw after its call out to the adapter (lines 106-111); shares is the
\* previewWithdraw figure of line 100, taken before the call out
WithdrawTail(s, shares, caller, assets, receiver, owner) ==
    IF s.shares[owner] = 0 THEN Fail("DivisionByZero", s)
    ELSE LET principalToReduce == (s.principal[owner] * shares) \div s.shares[owner]
         IN IF principalToReduce > s.principal[owner]
               \/ principalToReduce > s.totalPrincipal
            THEN Fail("ArithmeticUnderflow", s)
            ELSE SuperWithdraw(
                   [s EXCEPT !.principal = [@ EXCEPT ![owner] = @ - principalToReduce],
                             !.totalPrincipal = @ - principalToReduce],
                   caller, assets, receiver, owner)

\* withdraw as it would be with the whenNotPaused modifier that deposit has
WithdrawWhenNotPaused(s, caller, assets, receiver, owner) ==
    LET shares == ConvertToSharesCeil(s, assets)
        w == WithdrawFromProtocol(s, assets)
    IN IF s.paused THEN Fail("EnforcedPause", s)
       ELSE IF w.err # "none" THEN w
       ELSE WithdrawTail(w.s, shares, caller, assets, receiver, owner)

\* withdraw(assets, receiver, owner)
VaultWithdraw(s, caller, assets, receiver, owner) ==
    LET shares == ConvertToSharesCeil(s, assets)
        w == WithdrawFromProtocol(s, assets)
    IN IF w.err # "none" THEN w
       ELSE WithdrawTail(w.s, shares, caller, assets, receiver, owner)

\* the two legs as they would be if a failing deposit leg were tolerated: the
\* funds withdrawn from the old adapter stay idle in the vault
LegsIgnoringDepositFailure(s, targetProtocol, blk) ==
    LET amount == TotalAssets(s)
        w == WithdrawFromProtocol(s, amount)
    IN IF w.err # "none" THEN w
       ELSE LET f == [w.s EXCEPT !.active = targetProtocol]
                d == DepositToProtocol(f, amount)
            IN IF d.err # "none" THEN Ok([f EXCEPT !.lastReb = blk])
               ELSE Ok([d.s EXCEPT !.lastReb = blk])

\* the two legs as they would be without the assignment of line 144: the
\* funds go back to the adapter they came from
LegsKeepingActive(s, targetProtocol, blk) ==
    LET amount == TotalAssets(s)
        w == WithdrawFromProtocol(s, amount)
    IN IF w.err # "none" THEN w
       ELSE LET d == DepositToProtocol(w.s, amount)
            IN IF d.err # "none" THEN d
               ELSE Ok([d.s EXCEPT !.lastReb = blk])

\* the two legs as they would be without the deposit leg of line 145: the
\* funds withdrawn stay idle in the vault under the new active protocol
LegsLeavingFundsIdle(s, targetProtocol, blk) ==
    LET amount == TotalAssets(s)
        w == WithdrawFromProtocol(s, amount)
    IN IF w.err # "none" THEN w
       ELSE Ok([w.s EXCEPT !.active = targetProtocol, !.lastReb = blk])

\* the two legs of rebalance, after the gate
RebalanceLegs(s, targetProtocol, blk) ==
    LET amount == TotalAssets(s)
        w == WithdrawFromProtocol(s, amount)
    IN IF w.err # "none" THEN w
       ELSE LET d == DepositToProtocol([w.s EXCEPT !.active = targetProtocol], amount)
            IN IF d.err # "none" THEN d
               ELSE Ok([d.s EXCEPT !.lastReb = blk])

\* rebalance as it would be with <= in the gain check of line 133
RebalanceStrictGain(s, caller, targetProtocol, expectedGain, gasCost, blk) ==
    IF s.paused THEN Fail("EnforcedPause", s)
    ELSE IF expectedGain <= MIN_REBALANCE_THRESHOLD THEN Fail("InsufficientYieldGain", s)
    ELSE IF gasCost > MAX_GAS_COST_THRESHOLD THEN Fail("GasCostTooHigh", s)
    ELSE IF TotalAssets(s) = 0 THEN Fail("NoFundsToRebalance", s)
    ELSE RebalanceLegs(s, targetProtocol, blk)

\* rebalance up to its first call out (whenNotPaused and lines 133-139)
RebalanceGate(s, expectedGain, gasCost) ==
    IF s.paused THEN Fail("EnforcedPause", s)
    ELSE IF expectedGain < MIN_REBALANCE_THRESHOLD THEN Fail("InsufficientYieldGain", s)
    ELSE IF gasCost > MAX_GAS_COST_THRESHOLD THEN Fail("GasCostTooHigh", s)
    ELSE IF TotalAssets(s) = 0 THEN Fail("NoFundsToRebalance", s)
    ELSE Ok(s)

\* rebalance as it would be if the event read activeProtocol and
\* totalAssets() when it is emitted, after the move
RebalanceLoggingAfterMove(s, caller, targetProtocol, expectedGain, gasCost, blk) ==
    LET g == RebalanceGate(s, expectedGain, gasCost)
        r == RebalanceLegs(s, targetProtocol, blk)
    IN IF g.err # "none" THEN g
       ELSE IF r.err # "none" THEN r
       ELSE Ok([r.s EXCEPT !.log = <<r.s.active, targetProtocol, expectedGain,
                                     TotalAssets(r.s)>>])

\* rebalance as it would be if lastRebalanceBlock were an ordering lock: at
\* most one reallocation per block
RebalanceOncePerBlock(s, caller, targetProtocol, expectedGain, gasCost, blk) ==
    LET g == RebalanceGate(s, expectedGain, gasCost)
        fromProtocol == s.active
        amount == TotalAssets(s)
        r == RebalanceLegs(s, targetProtocol, blk)
    IN IF blk <= s.lastReb THEN Fail("RebalanceTooSoon", s)
       ELSE IF g.err # "none" THEN g
       ELSE IF r.err # "none" THEN r
       ELSE Ok([r.s EXCEPT !.log = <<fromProtocol, targetProtocol, expectedGain,
                                     amount>>])

\* rebalance(targetProtocol, expectedGain, gasCost), after the modifiers
\* (nonReentrant whenNotPaused: the caller is not examined); on success it
\* emits Rebalance(fromProtocol, targetProtocol, expectedGain, amount)
VaultRebalance(s, caller, targetProtocol, expectedGain, gasCost, blk) ==
    LET g == RebalanceGate(s, expectedGain, gasCost)
        fromProtocol == s.active
        amount == TotalAssets(s)
        r == RebalanceLegs(s, targetProtocol, blk)
    IN IF g.err # "none" THEN g
       ELSE IF r.err # "none" THEN r
       ELSE Ok([r.s EXCEPT !.log = <<fromProtocol, targetProtocol, expectedGain,
                                     amount>>])


\* getYieldEarned(user)
GetYieldEarned(s, user) ==
    LET currentValue == ConvertToAssetsFloor(s, s.shares[user])
    IN IF currentValue > s.principal[user]
       THEN currentValue - s.principal[user] ELSE 0

\* ERC4626.mint(shares, receiver), inherited unchanged
VaultMint(s, caller, shares, receiver) ==
    LET assets == ConvertToAssetsCeil(s, shares)
        t == TokenTransfer(s, caller, Vault, assets)
    IN IF t.err # "none" THEN t
       ELSE Ok([t.s EXCEPT !.shares = [@ EXCEPT ![receiver] = @ + shares]])

\* ERC4626.redeem(shares, receiver, owner), inherited unchanged
VaultRedeem(s, caller, shares, receiver, owner) ==
    LET assets == ConvertToAssetsFloor(s, shares)
    IN IF shares > s.shares[owner] THEN Fail("ERC4626ExceededMaxRedeem", s)
       ELSE IF caller # owner /\ shares > 0
            THEN Fail("ERC20InsufficientAllowance", s)
       ELSE TokenTransfer([s EXCEPT !.shares = [@ EXCEPT ![owner] = @ - shares]],
                          Vault, receiver, assets)

\* ERC20.transfer(to, value) of the share token
ShareTransfer(s, from, to, value) ==
    IF s.shares[from] < value THEN Fail("ERC20InsufficientBalance", s)
    ELSE IF from = to THEN Ok(s)
    ELSE Ok([s EXCEPT !.shares = [@ EXCEPT ![from] = @ - value, ![to] = @ + value]])

\* setAdapter as it would be without the onlyOwner modifier
SetAdapterByAnyone(s, caller, protocol, adapter) ==
    IF adapter = NULL THEN Fail("InvalidAdapter", s)
    ELSE Ok([s EXCEPT !.adapters = [@ EXCEPT ![protocol] = adapter]])

\* setAdapter(protocol, adapter)
VaultSetAdapter(s, caller, protocol, adapter) ==
    IF caller # Owner THEN Fail("OwnableUnauthorizedAccount", s)
    ELSE IF adapter = NULL THEN Fail("InvalidAdapter", s)
    ELSE Ok([s EXCEPT !.adapters = [@ EXCEPT ![protocol] = adapter]])

\* pause()
VaultPause(s, caller) ==
    IF caller # Owner THEN Fail("OwnableUnauthorizedAccount", s)
    ELSE IF s.paused THEN Fail("EnforcedPause", s)
    ELSE Ok([s EXCEPT !.paused = TRUE])

\* unpause()
VaultUnpause(s, caller) ==
    IF caller # Owner THEN Fail("OwnableUnauthorizedAccount", s)
    ELSE IF ~s.paused THEN Fail("ExpectedPause", s)
    ELSE Ok([s EXCEPT !.paused = FALSE])

(***************************************************************************)
(* A call commits what it computed, or reverts and leaves the state as it  *)
(* was: Outcome is the vault world after the call.                         *)
(***************************************************************************)
Store(s) ==
    /\ activeProtocol' = s.active
    /\ adapters' = s.adapters
    /\ lastRebalanceBlock' = s.lastReb
    /\ paused' = s.paused
    /\ principalDeposited' = s.principal
    /\ totalPrincipal' = s.totalPrincipal
    /\ shareBalance' = s.shares
    /\ usdcBalance' = s.usdc
    /\ adapterBalance' = s.abal

Outcome(res) == IF res.err = "none" THEN res.s ELSE Cur

Commit(res) ==
    /\ Store(Outcome(res))
    /\ UNCHANGED <<status, frame, faults, sessionKeys, userSessionKeys, now, daemonVars>>

\* (principal can be re-deposited after a redeem, which does not reduce it:
\* the recorded principal is capped at the USDC in existence)
\* (setSlippage before the call is one manipulation of the adapter, counted
\* when the deposit it acts on goes through)
Deposit(caller, assets, receiver, failD, slip) ==
    LET res == VaultDeposit(Slipping(World(failD, FALSE), slip),
                            caller, assets, receiver)
        set == IF slip > 0 /\ res.err = "none" THEN 1 ELSE 0
    IN /\ totalPrincipal + assets <= SumOver(usdcBalance, Holders)
       /\ faults + set <= MaxFaults
       /\ faults' = faults + set
       /\ Store(Outcome(res))
       /\ UNCHANGED <<status, frame, sessionKeys, userSessionKeys, now, daemonVars>>

Withdraw(caller, assets, receiver, owner, failW) ==
    Commit(VaultWithdraw(World(FALSE, failW), caller, assets, receiver, owner))

\* (blk is block.number when the call executes)
Rebalance(caller, targetProtocol, expectedGain, gasCost, failD, failW, blk) ==
    Commit(VaultRebalance(World(failD, failW), caller, targetProtocol,
                          expectedGain, gasCost, blk))

Mint(caller, shares, receiver) ==
    Commit(VaultMint(Cur, caller, shares, receiver))

Redeem(caller, shares, receiver, owner) ==
    Commit(VaultRedeem(Cur, caller, shares, receiver, owner))

Transfer(from, to, value) ==
    Commit(ShareTransfer(Cur, from, to, value))

SetAdapter(caller, protocol, adapter) ==
    Commit(VaultSetAdapter(Cur, caller, protocol, adapter))

Pause(caller) == Commit(VaultPause(Cur, caller))

Unpause(caller) == Commit(VaultUnpause(Cur, caller))

(***************************************************************************)
(* The adapter owner moves an adapter's reported balance (addYield,        *)
(* reduceBalance).                                                         *)
(***************************************************************************)
Manipulate(s) ==
    /\ faults < MaxFaults
    /\ faults' = faults + 1
    /\ Store(s)
    /\ UNCHANGED <<status, frame, sessionKeys, userSessionKeys, now, daemonVars>>

\* addYield(yieldAmount)
AddYield(a, yieldAmount) ==
    /\ yieldAmount > 0
    /\ Manipulate([Cur EXCEPT !.abal = [@ EXCEPT ![a] = @ + yieldAmount]])

\* reduceBalance(lossAmount)
ReduceBalance(a, lossAmount) ==
    /\ lossAmount > 0
    /\ adapterBalance[a] >= lossAmount
    /\ Manipulate([Cur EXCEPT !.abal = [@ EXCEPT ![a] = @ - lossAmount]])

\* emergencyWithdraw() on adapter a, called by the adapter owner
EmergencyWithdraw(a) == Commit(AdapterEmergencyWithdraw(Cur, a))

(***************************************************************************)
(* YieldKeeperService (keeper/src/index.ts): one run of checkAndRebalance  *)
(* against the vault.  What the keeper learns from outside is an input of  *)
(* the run: the APY table, whether the contract binding hands the uint8    *)
(* activeProtocol over as a bigint or as a number, whether the RPC node    *)
(* answers the gas estimation, and the gas bill it quotes.                 *)
(***************************************************************************)
\* KeeperConfig as main() builds it
minRebalanceThreshold == 30
maxGasCostThreshold == 10
\* the Safe the keeper executes through: msg.sender of the vault call
Safe == "safe"
\* APYs in basis points reported for the three protocols
ApyTables == [Protocols -> {350, 379, 380}]
\* gasLimit * gasPrice quoted by the node, in wei
GasBills == {0, 1}

\* findBestProtocol: reduce keeps the earlier entry unless a later one is
\* strictly greater
FindBestProtocol(apys) ==
    CHOOSE p \in Protocols :
       /\ \A q \in Protocols : apys[q] <= apys[p]
       /\ \A q \in Protocols : q < p => apys[q] < apys[p]

\* vaultContract.rebalance.estimateGas(targetProtocol, expectedGain, 0): the
\* node simulates the call and rejects when it would revert or when the
\* request itself fails
EstimateGasFails(s, targetProtocol, expectedGain, rpcDown) ==
    \/ rpcDown
    \/ VaultRebalance(s, Safe, targetProtocol, expectedGain, 0, MaxBlock).err # "none"

\* estimateRebalanceGasCost(targetProtocol, expectedGain)
EstimateRebalanceGasCost(s, targetProtocol, expectedGain, rpcDown, totalGasCost) ==
    IF EstimateGasFails(s, targetProtocol, expectedGain, rpcDown)
    THEN maxGasCostThreshold
    ELSE IF TotalAssets(s) > 0
         THEN ((totalGasCost * 365 * 10000) \div TotalAssets(s)) \div 100
         ELSE 0

\* the run ends without a transaction
NoRebalance(why) ==
    [executed |-> FALSE, why |-> why, target |-> 0, expectedGain |-> 0, gasCost |-> 0]

\* checkAndRebalance(): the rebalance it decides to execute, if any.  With a
\* bigint activeProtocol the switch of getProtocolName matches no case and
\* the run throws at its second statement.
CheckAndRebalance(s, apys, asBigint, rpcDown, totalGasCost) ==
    LET activeProtocol_ == s.active
        bestProtocol == FindBestProtocol(apys)
        currentAPY == apys[activeProtocol_]
        expectedGain == apys[bestProtocol] - currentAPY
        gasCost == EstimateRebalanceGasCost(s, bestProtocol, expectedGain,
                                            rpcDown, totalGasCost)
    IN IF asBigint THEN NoRebalance("Invalid protocol ID")
       ELSE IF bestProtocol = activeProtocol_ THEN NoRebalance("already best")
       ELSE IF expectedGain < minRebalanceThreshold THEN NoRebalance("below threshold")
       ELSE IF gasCost > maxGasCostThreshold THEN NoRebalance("gas too high")
       ELSE [executed |-> TRUE, why |-> "", target |-> bestProtocol,
             expectedGain |-> expectedGain, gasCost |-> gasCost]

\* one run of the keeper: executeRebalance sends the vault call through the
\* Safe, in block blk
KeeperCheck(apys, asBigint, rpcDown, totalGasCost, blk) ==
    LET run == CheckAndRebalance(Cur, apys, asBigint, rpcDown, totalGasCost)
    IN IF run.executed
       THEN Commit(VaultRebalance(Cur, Safe, run.target, run.expectedGain,
                                  run.gasCost, blk))
       ELSE UNCHANGED vars

(***************************************************************************)
(* KeeperDaemon (keeper/src/services): start() and stop() on one daemon    *)
(* object.  The event loop runs one callback at a time and a call gives    *)
(* way to others only where it awaits, so start() is three steps (up to    *)
(* await initialize(), up to await performCheck(), the rest) and stop(),   *)
(* which awaits nothing, is one.  A timer made by setInterval lives until  *)
(* clearInterval is called on it.  runtime.stopReturned says that stop()   *)
(* has returned and start() has not been called since; runtime.lateCheck   *)
(* that a periodic check has run while that was so.                        *)
(***************************************************************************)
\* the daemon's wallet: msg.sender of the rebalance it sends
KeeperWallet == "keeper"
StartCalls == 1..MaxCalls
\* getAPYData(): the mock table, every entry at either end of its range
DaemonApyTables ==
    {t \in [Protocols -> {350, 375, 399, 400, 424, 449}] :
        /\ t[0] \in {350, 399}
        /\ t[1] \in {400, 449}
        /\ t[2] \in {375, 424}}
\* gasPrice of getFeeData() in wei; 0 stands for a missing one
GasPrices == {0, 1, 3}

\* 0.99 of the vault balance at six decimals, as toFixed(6) rounds it
MinOutAmount(totalAssets) == (totalAssets * 99 + 50) \div 100

\* gasCostBps > maxGasCostThreshold, with gasCostBps =
\* 200000 * gasPrice / 10^18 * 2000 / (totalAssets / 10^6) * 10000, which is
\* 4 * gasPrice / totalAssets
GasCostTooHigh(gasPrice, totalAssets) ==
    LET price == IF gasPrice = 0 THEN 1000000 ELSE gasPrice
    IN 4 * price > maxGasCostThreshold * totalAssets

\* performCheck(): what the check does to the vault.  It catches whatever
\* goes wrong, a reverted rebalance included.
PerformCheck(s, apys, asBigint, gasPrice, blk) ==
    LET totalAssets == TotalAssets(s)
        currentProtocolAPY == IF asBigint THEN 0 ELSE apys[s.active]
        bestProtocol == FindBestProtocol(apys)
        expectedGain == apys[bestProtocol] - currentProtocolAPY
    IN IF totalAssets = 0 THEN Ok(s)
       ELSE IF expectedGain < minRebalanceThreshold THEN Ok(s)
       ELSE IF GasCostTooHigh(gasPrice, totalAssets) THEN Ok(s)
       ELSE VaultRebalance(s, KeeperWallet, bestProtocol, expectedGain,
                           MinOutAmount(totalAssets), blk)

\* no start() call is between its first and its last step
Quiescent ==
    \A c \in StartCalls : runtime.startCalls[c] \in {"idle", "returned", "threw"}

\* a vault call made from the daemon's event loop
DaemonCommit(res) ==
    /\ Store(Outcome(res))
    /\ UNCHANGED <<status, frame, faults, sessionKeys, userSessionKeys, now>>

\* start(), up to await this.initialize()
StartCall(c) ==
    /\ runtime.startCalls[c] = "idle"
    /\ runtime' = [runtime EXCEPT
                      !.startCalls[c] = IF daemon.isRunning THEN "returned"
                                        ELSE "initialize",
                      !.stopReturned = FALSE]
    /\ UNCHANGED <<daemon, vaultVars, registryVars>>

\* initialize() settles: start() goes on to await this.performCheck(), or
\* its catch block resets the flag and rethrows
InitializeDone(c, ok) ==
    /\ runtime.startCalls[c] = "initialize"
    /\ daemon' = [daemon EXCEPT !.isRunning = ok]
    /\ runtime' = [runtime EXCEPT
                      !.startCalls[c] = IF ok THEN "performCheck" ELSE "threw"]
    /\ UNCHANGED <<vaultVars, registryVars>>

\* the first check settles: start() schedules the recurring checks and returns
FirstCheckDone(c, apys, asBigint, gasPrice, blk) ==
    /\ runtime.startCalls[c] = "performCheck"
    /\ DaemonCommit(PerformCheck(Cur, apys, asBigint, gasPrice, blk))
    /\ LET id == CHOOSE n \in 1..(MaxCalls + 1) : n \notin runtime.timers
       IN /\ daemon' = [daemon EXCEPT !.intervalId = id]
          /\ runtime' = [runtime EXCEPT !.startCalls[c] = "returned",
                                        !.timers = @ \cup {id}]

\* stop()
Stop ==
    /\ daemon' = [isRunning |-> FALSE,
                  intervalId |-> IF daemon.isRunning THEN 0 ELSE daemon.intervalId]
    /\ runtime' = [runtime EXCEPT
                      !.timers = IF daemon.isRunning
                                 THEN @ \ {daemon.intervalId} ELSE @,
                      !.stopReturned = TRUE]
    /\ UNCHANGED <<vaultVars, registryVars>>

\* a timer fires: the periodic performCheck()
TimerFires(id, apys, asBigint, gasPrice, blk) ==
    /\ id \in runtime.timers
    /\ DaemonCommit(PerformCheck(Cur, apys, asBigint, gasPrice, blk))
    /\ runtime' = [runtime EXCEPT !.lateCheck = @ \/ runtime.stopReturned]
    /\ UNCHANGED daemon

(***************************************************************************)
(* A vault call seen step by step (ReentrantSpec).  deposit, withdraw and  *)
(* rebalance are nonReentrant: the lock is taken on entry, the call writes *)
(* what precedes its call out, hands control to the adapter (frame holds   *)
(* the call and the state to restore if it reverts), and finishes when the *)
(* adapter returns.  While it has control the adapter may call any entry   *)
(* point of the vault.  mint, redeem and the share token's transfer are    *)
(* inherited from ERC4626 / ERC20 and carry no nonReentrant modifier.      *)
(***************************************************************************)
\* the nonReentrant modifier around a call: _nonReentrantBefore
NonReentrant(st, res) ==
    IF st = "ENTERED" THEN Fail("ReentrancyGuardReentrantCall", res.s) ELSE res

InFlight == frame # <<>>

\* the adapter holding control: every call out goes to adapters[activeProtocol]
Callee == adapters[activeProtocol]

Frame(op, leg, caller, assets, receiver, owner, shares, target, blk) ==
    [op |-> op, leg |-> leg, saved |-> Cur, caller |-> caller,
     assets |-> assets, receiver |-> receiver, owner |-> owner,
     shares |-> shares, target |-> target, blk |-> blk]

\* the call in flight hands control to the adapter
CallOut(s, fr) ==
    /\ Store(s)
    /\ status' = "ENTERED"
    /\ frame' = <<fr>>
    /\ UNCHANGED <<faults, sessionKeys, userSessionKeys, now, daemonVars>>

\* the call in flight ends: it commits res, or reverts to the state it was
\* entered in; _nonReentrantAfter runs, or the revert undoes the lock
Finish(res) ==
    /\ Store(IF res.err = "none" THEN res.s ELSE frame[1].saved)
    /\ status' = "NOT_ENTERED"
    /\ frame' = <<>>
    /\ UNCHANGED <<faults, sessionKeys, userSessionKeys, now, daemonVars>>

\* deposit(assets, receiver) reaches adapter.deposit
EnterDeposit(caller, assets, receiver) ==
    LET h == NonReentrant(status, DepositHead(Cur, caller, assets, receiver))
    IN /\ ~InFlight
       /\ totalPrincipal + assets <= InitialWallet
       /\ h.err = "none"
       /\ Callee # NULL
       /\ CallOut(h.s, Frame("deposit", 1, caller, assets, receiver, receiver,
                             0, activeProtocol, 0))

\* adapter.deposit returns or reverts
ReturnDeposit(failD) ==
    /\ InFlight
    /\ frame[1].op = "deposit"
    /\ Finish(DepositToProtocol(World(failD, FALSE), frame[1].assets))

\* withdraw(assets, receiver, owner) reaches adapter.withdraw
EnterWithdraw(caller, assets, receiver, owner) ==
    LET shares == ConvertToSharesCeil(Cur, assets)
    IN /\ ~InFlight
       /\ NonReentrant(status, Ok(Cur)).err = "none"
       /\ Callee # NULL
       /\ CallOut(Cur, Frame("withdraw", 1, caller, assets, receiver, owner,
                             shares, activeProtocol, 0))

\* adapter.withdraw returns or reverts, and withdraw runs to its end
ReturnWithdraw(failW) ==
    LET fr == frame[1]
        w == WithdrawFromProtocol(World(FALSE, failW), fr.assets)
    IN /\ InFlight
       /\ fr.op = "withdraw"
       /\ Finish(IF w.err # "none" THEN w
                 ELSE WithdrawTail(w.s, fr.shares, fr.caller, fr.assets,
                                   fr.receiver, fr.owner))

\* rebalance(targetProtocol, expectedGain, gasCost) reaches the withdraw leg
EnterRebalance(caller, targetProtocol, expectedGain, gasCost, blk) ==
    LET g == NonReentrant(status, RebalanceGate(Cur, expectedGain, gasCost))
    IN /\ ~InFlight
       /\ g.err = "none"
       /\ Callee # NULL
       /\ CallOut(Cur, Frame("rebalance", 1, caller, TotalAssets(Cur), caller,
                             caller, 0, targetProtocol, blk))

\* the old adapter returns from the withdraw leg: activeProtocol is switched
\* and control goes to the target adapter for the deposit leg
ReturnWithdrawLeg(failW) ==
    LET fr == frame[1]
        w == WithdrawFromProtocol(World(FALSE, failW), fr.assets)
    IN /\ InFlight
       /\ fr.op = "rebalance"
       /\ fr.leg = 1
       /\ IF w.err = "none" /\ w.s.adapters[fr.target] # NULL
          THEN /\ Store([w.s EXCEPT !.active = fr.target])
               /\ frame' = <<[fr EXCEPT !.leg = 2]>>
               /\ UNCHANGED <<status, faults, sessionKeys, userSessionKeys, now, daemonVars>>
          ELSE Finish(Fail("Reverted", w.s))

\* the target adapter returns from the deposit leg
ReturnDepositLeg(failD) ==
    LET fr == frame[1]
        d == DepositToProtocol(World(failD, FALSE), fr.assets)
    IN /\ InFlight
       /\ fr.op = "rebalance"
       /\ fr.leg = 2
       /\ Finish(IF d.err # "none" THEN d ELSE Ok([d.s EXCEPT !.lastReb = fr.blk]))

\* what the vault answers to the adapter that holds control
ReentrantDeposit(assets, receiver) ==
    NonReentrant(status, VaultDeposit(Cur, Callee, assets, receiver))
ReentrantWithdraw(assets, receiver, owner) ==
    NonReentrant(status, VaultWithdraw(Cur, Callee, assets, receiver, owner))
ReentrantRebalance(targetProtocol, expectedGain, gasCost, blk) ==
    NonReentrant(status, VaultRebalance(Cur, Callee, targetProtocol,
                                        expectedGain, gasCost, blk))
ReentrantMint(shares, receiver) == VaultMint(Cur, Callee, shares, receiver)
ReentrantRedeem(shares, receiver, owner) ==
    VaultRedeem(Cur, Callee, shares, receiver, owner)

\* the adapter calls back into the vault; a call that reverts is caught by
\* the adapter and leaves the state as it was
Reenter(res) ==
    /\ InFlight
    /\ Store(Outcome(res))
    /\ UNCHANGED <<status, frame, faults, sessionKeys, userSessionKeys, now, daemonVars>>

ReenterDeposit(assets, receiver) == Reenter(ReentrantDeposit(assets, receiver))

ReenterWithdraw(assets, receiver, owner) ==
    Reenter(ReentrantWithdraw(assets, receiver, owner))

ReenterRebalance(targetProtocol, expectedGain, gasCost, blk) ==
    Reenter(ReentrantRebalance(targetProtocol, expectedGain, gasCost, blk))

ReenterMint(shares, receiver) == Reenter(ReentrantMint(shares, receiver))

ReenterRedeem(shares, receiver, owner) ==
    Reenter(ReentrantRedeem(shares, receiver, owner))


(***************************************************************************)
(* SessionKeyManager                                                       *)
(***************************************************************************)
\* the deployer of the registry (Ownable owner)
RegistryOwner == "owner"
SessionKeyAddrs == {"k1"}
Targets == {"vault", "other"}
\* bytes4 selectors of rebalance(uint8,uint256,uint256) and deposit(uint256,address)
Selectors == {"rebalance", "deposit"}
Times == 0..MaxTime
\* validity windows <<validAfter, validUntil>> asked for: one that is open at
\* deployment and ends before the last timestamp, one that opens later
Windows == {<<0, MaxTime - 1>>, <<1, MaxTime>>}
Values == {0, 1, 2}
\* a signature is made by a signer over a message hash
Signers == {"k1", "k2"}
Messages == {"m1", "m2"}
Signatures == [signer : Signers, msg : Messages]

\* keccak256(abi.encodePacked(msg.sender, sessionKey, target, functionSelector,
\* validAfter, validUntil)): injective on its six fixed-width fields
KeyIdOf(granter, sessionKey, target, functionSelector, validAfter, validUntil) ==
    <<granter, sessionKey, target, functionSelector, validAfter, validUntil>>

\* an id no grant can have (validUntil > validAfter fails)
UnknownKey == KeyIdOf("u1", "k1", "vault", "rebalance", 0, 0)

\* the zero struct a mapping holds for a key never written
NoGrant == [sessionKey |-> NULL, target |-> NULL, functionSelector |-> "0x00000000",
            valueLimit |-> 0, maxTransactions |-> 0, transactionCount |-> 0,
            validAfter |-> 0, validUntil |-> 0, isActive |-> FALSE]

\* the SafeWalletFactory contract, which deploys a registry of its own and
\* makes grants in it
Factory == "factory"
\* accounts and contracts that call grantSessionKey
Granters == Accounts \cup {Factory}

\* the registry storage as one record, with the owner() it was deployed with
Registry == [keys |-> sessionKeys, user |-> userSessionKeys,
             owner |-> RegistryOwner]

\* the registry deployed by the factory's constructor: owner() is the factory
FactoryRegistry == [Registry EXCEPT !.owner = Factory]

\* sessionKeys[keyId]
KeyData(r, keyId) == IF keyId \in DOMAIN r.keys THEN r.keys[keyId] ELSE NoGrant

PutKey(r, keyId, data) ==
    [r EXCEPT !.keys = [k \in DOMAIN r.keys \cup {keyId} |->
                           IF k = keyId THEN data ELSE r.keys[k]]]

\* isOwnerOfSessionKey(user, keyId)
IsOwnerOfSessionKey(r, user, keyId) ==
    \E i \in 1..Len(r.user[user]) : r.user[user][i] = keyId

\* messageHash.toEthSignedMessageHash().recover(signature): the signer when the
\* signature was made over this hash, another address otherwise
Recover(messageHash, signature) ==
    IF signature.msg = messageHash THEN signature.signer ELSE "garbage"

\* grantSessionKey as it would be without the require of line 304
GrantOverExisting(r, caller, sessionKey, target, functionSelector, valueLimit, maxTransactions, validAfter, validUntil, timestamp) ==
    LET keyId == KeyIdOf(caller, sessionKey, target, functionSelector,
                         validAfter, validUntil)
    IN IF sessionKey = NULL THEN Fail("InvalidSessionKey", r)
       ELSE IF target = NULL THEN Fail("InvalidTarget", r)
       ELSE IF ~(validUntil > validAfter) THEN Fail("InvalidValidityPeriod", r)
       ELSE IF ~(validUntil > timestamp) THEN Fail("AlreadyExpired", r)
       ELSE Ok([PutKey(r, keyId,
                       [sessionKey |-> sessionKey, target |-> target,
                        functionSelector |-> functionSelector,
                        valueLimit |-> valueLimit,
                        maxTransactions |-> maxTransactions,
                        transactionCount |-> 0,
                        validAfter |-> validAfter, validUntil |-> validUntil,
                        isActive |-> TRUE])
                EXCEPT !.user = [@ EXCEPT ![caller] = Append(@, keyId)]])

\* grantSessionKey as it would be without the require of line 291
GrantAlreadyExpired(r, caller, sessionKey, target, functionSelector, valueLimit, maxTransactions, validAfter, validUntil, timestamp) ==
    LET keyId == KeyIdOf(caller, sessionKey, target, functionSelector,
                         validAfter, validUntil)
    IN IF sessionKey = NULL THEN Fail("InvalidSessionKey", r)
       ELSE IF target = NULL THEN Fail("InvalidTarget", r)
       ELSE IF ~(validUntil > validAfter) THEN Fail("InvalidValidityPeriod", r)
       ELSE IF KeyData(r, keyId).sessionKey # NULL THEN Fail("SessionKeyAlreadyExists", r)
       ELSE Ok([PutKey(r, keyId,
                       [sessionKey |-> sessionKey, target |-> target,
                        functionSelector |-> functionSelector,
                        valueLimit |-> valueLimit,
                        maxTransactions |-> maxTransactions,
                        transactionCount |-> 0,
                        validAfter |-> validAfter, validUntil |-> validUntil,
                        isActive |-> TRUE])
                EXCEPT !.user = [@ EXCEPT ![caller] = Append(@, keyId)]])

\* grantSessionKey(...)
GrantSessionKey(r, caller, sessionKey, target, functionSelector, valueLimit, maxTransactions, validAfter, validUntil, timestamp) ==
    LET keyId == KeyIdOf(caller, sessionKey, target, functionSelector,
                         validAfter, validUntil)
    IN IF sessionKey = NULL THEN Fail("InvalidSessionKey", r)
       ELSE IF target = NULL THEN Fail("InvalidTarget", r)
       ELSE IF ~(validUntil > validAfter) THEN Fail("InvalidValidityPeriod", r)
       ELSE IF ~(validUntil > timestamp) THEN Fail("AlreadyExpired", r)
       ELSE IF KeyData(r, keyId).sessionKey # NULL THEN Fail("SessionKeyAlreadyExists", r)
       ELSE Ok([PutKey(r, keyId,
                       [sessionKey |-> sessionKey, target |-> target,
                        functionSelector |-> functionSelector,
                        valueLimit |-> valueLimit,
                        maxTransactions |-> maxTransactions,
                        transactionCount |-> 0,
                        validAfter |-> validAfter, validUntil |-> validUntil,
                        isActive |-> TRUE])
                EXCEPT !.user = [@ EXCEPT ![caller] = Append(@, keyId)]])

\* revokeSessionKey as it would be if it deleted the grant
\* (delete sessionKeys[keyId]) instead of clearing its flag
RevokeDeleting(r, caller, keyId) ==
    LET data == KeyData(r, keyId)
    IN IF data.sessionKey = NULL THEN Fail("SessionKeyNotFound", r)
       ELSE IF ~(caller = r.owner \/ IsOwnerOfSessionKey(r, caller, keyId))
            THEN Fail("Unauthorized", r)
       ELSE Ok(PutKey(r, keyId, NoGrant))

\* revokeSessionKey as it would be if a grant could be revoked only once
RevokeOnlyActive(r, caller, keyId) ==
    LET data == KeyData(r, keyId)
    IN IF data.sessionKey = NULL THEN Fail("SessionKeyNotFound", r)
       ELSE IF ~data.isActive THEN Fail("SessionKeyNotActive", r)
       ELSE IF ~(caller = r.owner \/ IsOwnerOfSessionKey(r, caller, keyId))
            THEN Fail("Unauthorized", r)
       ELSE Ok(PutKey(r, keyId, [data EXCEPT !.isActive = FALSE]))

\* revokeSessionKey(keyId)
RevokeSessionKey(r, caller, keyId) ==
    LET data == KeyData(r, keyId)
    IN IF data.sessionKey = NULL THEN Fail("SessionKeyNotFound", r)
       ELSE IF ~(caller = r.owner \/ IsOwnerOfSessionKey(r, caller, keyId))
            THEN Fail("Unauthorized", r)
       ELSE Ok(PutKey(r, keyId, [data EXCEPT !.isActive = FALSE]))

\* validateSessionKey as it would be without the selector check of line 370
ValidateAnySelector(r, keyId, target, functionSelector, value, signature, messageHash, timestamp) ==
    LET data == KeyData(r, keyId)
    IN IF data.sessionKey = NULL THEN Fail("SessionKeyNotFound", r)
       ELSE IF ~data.isActive THEN Fail("SessionKeyNotActive", r)
       ELSE IF timestamp < data.validAfter THEN Fail("SessionKeyNotYetValid", r)
       ELSE IF timestamp > data.validUntil THEN Fail("SessionKeyExpired", r)
       ELSE IF data.transactionCount >= data.maxTransactions
            THEN Fail("ExceededTransactionLimit", r)
       ELSE IF value > data.valueLimit THEN Fail("ExceededValueLimit", r)
       ELSE IF target # data.target THEN Fail("UnauthorizedTarget", r)
       ELSE IF Recover(messageHash, signature) # data.sessionKey
            THEN Fail("InvalidSignature", r)
       ELSE Ok(PutKey(r, keyId, [data EXCEPT !.transactionCount = @ + 1]))

\* validateSessionKey as it would be with > in the budget check of line 367
ValidatePastBudget(r, keyId, target, functionSelector, value, signature, messageHash, timestamp) ==
    LET data == KeyData(r, keyId)
    IN IF data.sessionKey = NULL THEN Fail("SessionKeyNotFound", r)
       ELSE IF ~data.isActive THEN Fail("SessionKeyNotActive", r)
       ELSE IF timestamp < data.validAfter THEN Fail("SessionKeyNotYetValid", r)
       ELSE IF timestamp > data.validUntil THEN Fail("SessionKeyExpired", r)
       ELSE IF data.transactionCount > data.maxTransactions
            THEN Fail("ExceededTransactionLimit", r)
       ELSE IF value > data.valueLimit THEN Fail("ExceededValueLimit", r)
       ELSE IF target # data.target THEN Fail("UnauthorizedTarget", r)
       ELSE IF functionSelector # data.functionSelector
            THEN Fail("UnauthorizedFunction", r)
       ELSE IF Recover(messageHash, signature) # data.sessionKey
            THEN Fail("InvalidSignature", r)
       ELSE Ok(PutKey(r, keyId, [data EXCEPT !.transactionCount = @ + 1]))

\* validateSessionKey as it would be without the signature check of lines
\* 373-374
ValidateUnsigned(r, keyId, target, functionSelector, value, signature, messageHash, timestamp) ==
    LET data == KeyData(r, keyId)
    IN IF data.sessionKey = NULL THEN Fail("SessionKeyNotFound", r)
       ELSE IF ~data.isActive THEN Fail("SessionKeyNotActive", r)
       ELSE IF timestamp < data.validAfter THEN Fail("SessionKeyNotYetValid", r)
       ELSE IF timestamp > data.validUntil THEN Fail("SessionKeyExpired", r)
       ELSE IF data.transactionCount >= data.maxTransactions
            THEN Fail("ExceededTransactionLimit", r)
       ELSE IF value > data.valueLimit THEN Fail("ExceededValueLimit", r)
       ELSE IF target # data.target THEN Fail("UnauthorizedTarget", r)
       ELSE IF functionSelector # data.functionSelector
            THEN Fail("UnauthorizedFunction", r)
       ELSE Ok(PutKey(r, keyId, [data EXCEPT !.transactionCount = @ + 1]))

\* validateSessionKey as it would be with the budget check of line 367 placed
\* before the window checks of lines 365-366
ValidateBudgetFirst(r, keyId, target, functionSelector, value, signature, messageHash, timestamp) ==
    LET data == KeyData(r, keyId)
    IN IF data.sessionKey = NULL THEN Fail("SessionKeyNotFound", r)
       ELSE IF ~data.isActive THEN Fail("SessionKeyNotActive", r)
       ELSE IF data.transactionCount >= data.maxTransactions
            THEN Fail("ExceededTransactionLimit", r)
       ELSE IF timestamp < data.validAfter THEN Fail("SessionKeyNotYetValid", r)
       ELSE IF timestamp > data.validUntil THEN Fail("SessionKeyExpired", r)
       ELSE IF value > data.valueLimit THEN Fail("ExceededValueLimit", r)
       ELSE IF target # data.target THEN Fail("UnauthorizedTarget", r)
       ELSE IF functionSelector # data.functionSelector
            THEN Fail("UnauthorizedFunction", r)
       ELSE IF Recover(messageHash, signature) # data.sessionKey
            THEN Fail("InvalidSignature", r)
       ELSE Ok(PutKey(r, keyId, [data EXCEPT !.transactionCount = @ + 1]))

\* validateSessionKey as it would be with the function check of line 370
\* placed before the target check of line 369
ValidateFunctionFirst(r, keyId, target, functionSelector, value, signature, messageHash, timestamp) ==
    LET data == KeyData(r, keyId)
    IN IF data.sessionKey = NULL THEN Fail("SessionKeyNotFound", r)
       ELSE IF ~data.isActive THEN Fail("SessionKeyNotActive", r)
       ELSE IF timestamp < data.validAfter THEN Fail("SessionKeyNotYetValid", r)
       ELSE IF timestamp > data.validUntil THEN Fail("SessionKeyExpired", r)
       ELSE IF data.transactionCount >= data.maxTransactions
            THEN Fail("ExceededTransactionLimit", r)
       ELSE IF value > data.valueLimit THEN Fail("ExceededValueLimit", r)
       ELSE IF functionSelector # data.functionSelector
            THEN Fail("UnauthorizedFunction", r)
       ELSE IF target # data.target THEN Fail("UnauthorizedTarget", r)
       ELSE IF Recover(messageHash, signature) # data.sessionKey
            THEN Fail("InvalidSignature", r)
       ELSE Ok(PutKey(r, keyId, [data EXCEPT !.transactionCount = @ + 1]))

\* validateSessionKey(keyId, target, functionSelector, value, signature, messageHash)
ValidateSessionKey(r, keyId, target, functionSelector, value, signature, messageHash, timestamp) ==
    LET data == KeyData(r, keyId)
    IN IF data.sessionKey = NULL THEN Fail("SessionKeyNotFound", r)
       ELSE IF ~data.isActive THEN Fail("SessionKeyNotActive", r)
       ELSE IF timestamp < data.validAfter THEN Fail("SessionKeyNotYetValid", r)
       ELSE IF timestamp > data.validUntil THEN Fail("SessionKeyExpired", r)
       ELSE IF data.transactionCount >= data.maxTransactions
            THEN Fail("ExceededTransactionLimit", r)
       ELSE IF value > data.valueLimit THEN Fail("ExceededValueLimit", r)
       ELSE IF target # data.target THEN Fail("UnauthorizedTarget", r)
       ELSE IF functionSelector # data.functionSelector
            THEN Fail("UnauthorizedFunction", r)
       ELSE IF Recover(messageHash, signature) # data.sessionKey
            THEN Fail("InvalidSignature", r)
       ELSE Ok(PutKey(r, keyId, [data EXCEPT !.transactionCount = @ + 1]))

(***************************************************************************)
(* SafeWalletFactory: createSafeWithSessionKey creates a Safe for a wallet *)
(* owner through the Safe proxy factory and grants, in the registry the    *)
(* factory deployed, a session key for the vault.  The grant is made by    *)
(* the factory: msg.sender of grantSessionKey is the factory.  The Safe    *)
(* proxy factory is an external contract: created tells whether its        *)
(* createProxyWithNonce returned a Safe.                                   *)
(***************************************************************************)
\* 24 hours, in seconds
SessionWindow == 86400
\* budget of a key granted by the factory
SessionTxBudget == 1000
\* the selector the factory grants
FactorySelector == "0x7dc0d1d0"

\* keyId returned by createSafeWithSessionKey at timestamp
FactoryKeyId(sessionKeyAddress, vaultAddress, timestamp) ==
    KeyIdOf(Factory, sessionKeyAddress, vaultAddress, FactorySelector,
            timestamp, timestamp + SessionWindow)

\* _grantRebalanceSessionKey(owner, sessionKeyAddress, vaultAddress)
GrantRebalanceSessionKey(r, owner, sessionKeyAddress, vaultAddress, timestamp) ==
    GrantSessionKey(r, Factory, sessionKeyAddress, vaultAddress, FactorySelector,
                    0, SessionTxBudget, timestamp, timestamp + SessionWindow,
                    timestamp)

\* createSafeWithSessionKey(owner, sessionKeyAddress, vaultAddress, saltNonce)
CreateSafeWithSessionKey(r, caller, owner, sessionKeyAddress, vaultAddress, saltNonce, created, timestamp) ==
    IF owner = NULL THEN Fail("InvalidOwner", r)
    ELSE IF sessionKeyAddress = NULL THEN Fail("InvalidSessionKey", r)
    ELSE IF vaultAddress = NULL THEN Fail("InvalidVaultAddress", r)
    ELSE IF ~created THEN Fail("SafeCreationFailed", r)
    ELSE GrantRebalanceSessionKey(r, owner, sessionKeyAddress, vaultAddress,
                                  timestamp)

\* a registry call commits what it computed, or reverts: RegistryOutcome is
\* the registry storage after the call
RegistryOutcome(res) == IF res.err = "none" THEN res.s ELSE Registry

CommitRegistry(res) ==
    /\ sessionKeys' = RegistryOutcome(res).keys
    /\ userSessionKeys' = RegistryOutcome(res).user
    /\ UNCHANGED <<now, daemonVars>>
    /\ UNCHANGED vaultVars

Grant(caller, sessionKey, target, functionSelector, valueLimit, maxTransactions, validAfter, validUntil) ==
    /\ \/ KeyIdOf(caller, sessionKey, target, functionSelector,
                   validAfter, validUntil) \in DOMAIN sessionKeys
       \/ Cardinality(DOMAIN sessionKeys) < MaxGrants
    /\ CommitRegistry(GrantSessionKey(Registry, caller, sessionKey, target,
                                      functionSelector, valueLimit, maxTransactions,
                                      validAfter, validUntil, now))

Revoke(caller, keyId) ==
    CommitRegistry(RevokeSessionKey(Registry, caller, keyId))

Validate(keyId, target, functionSelector, value, signature, messageHash) ==
    CommitRegistry(ValidateSessionKey(Registry, keyId, target, functionSelector,
                                      value, signature, messageHash, now))

\* createSafeWithSessionKey called on the factory
CreateSafe(caller, owner, sessionKeyAddress, vaultAddress, saltNonce, created) ==
    /\ \/ FactoryKeyId(sessionKeyAddress, vaultAddress, now) \in DOMAIN sessionKeys
       \/ Cardinality(DOMAIN sessionKeys) < MaxGrants
    /\ CommitRegistry(CreateSafeWithSessionKey(FactoryRegistry, caller, owner,
                                               sessionKeyAddress, vaultAddress,
                                               saltNonce, created, now))

\* revokeSessionKey called on the registry the factory deployed
RevokeAtFactory(caller, keyId) ==
    CommitRegistry(RevokeSessionKey(FactoryRegistry, caller, keyId))

\* validateSessionKey, for a grant validated at most MaxTx times so far (the
\* factory's budget is beyond the counts followed here)
ValidateWithin(keyId, target, functionSelector, value, signature, messageHash) ==
    /\ KeyData(Registry, keyId).transactionCount <= MaxTx
    /\ Validate(keyId, target, functionSelector, value, signature, messageHash)

\* block.timestamp moves on
Tick ==
    /\ now < MaxTime
    /\ now' = now + 1
    /\ UNCHANGED <<sessionKeys, userSessionKeys, daemonVars>>
    /\ UNCHANGED vaultVars

\* the daemon as constructed: not running, no timer, no call made
DaemonInit ==
    /\ daemon = [isRunning |-> FALSE, intervalId |-> 0]
    /\ runtime = [timers |-> {}, startCalls |-> [c \in 1..MaxCalls |-> "idle"],
                  stopReturned |-> FALSE, lateCheck |-> FALSE]

RegistryInit ==
    /\ sessionKeys = [k \in {} |-> NoGrant]
    /\ userSessionKeys = [a \in Granters |-> <<>>]
    /\ now = 0

\* key ids a caller may present: the stored ones and one that was never granted
KnownKeys == DOMAIN sessionKeys \cup {UnknownKey}

RegistryNext ==
    \/ \E c \in Accounts, k \in SessionKeyAddrs \cup {NULL},
          t \in {"vault", NULL}, f \in Selectors,
          mt \in 0..MaxTx, w \in Windows \cup {<<1, 1>>} :
          Grant(c, k, t, f, 1, mt, w[1], w[2])
    \/ \E c \in Accounts, id \in KnownKeys : Revoke(c, id)
    \/ \E id \in KnownKeys, t \in Targets, f \in Selectors, v \in Values,
          sig \in Signatures, h \in Messages :
          Validate(id, t, f, v, sig, h)
    \/ Tick

(***************************************************************************)
(* The deployed system: the vault as constructed (activeProtocol = AAVE,   *)
(* nothing deposited), the three adapters wired to their slots by the      *)
(* deployment script, the depositor holding USDC it has approved to the    *)
(* vault, the registry empty.                                              *)
(***************************************************************************)
VaultInit ==
    /\ activeProtocol = 0
    /\ adapters = [p \in Protocols |-> AdapterFor(p)]
    /\ lastRebalanceBlock = 0
    /\ paused = FALSE
    /\ principalDeposited = [a \in Accounts |-> 0]
    /\ totalPrincipal = 0
    /\ shareBalance = [a \in Accounts |-> 0]
    /\ usdcBalance = [h \in Holders |-> IF h = "u1" THEN InitialWallet ELSE 0]
    /\ adapterBalance = [a \in AdapterAddrs |-> 0]
    /\ faults = 0
    /\ status = "NOT_ENTERED"
    /\ frame = <<>>

Init == VaultInit /\ RegistryInit /\ DaemonInit

VaultNext ==
    \/ \E c \in Accounts, x \in Amounts, r \in Accounts, fd \in BOOLEAN,
          sl \in Slips :
          Deposit(c, x, r, fd, sl)
    \/ \E c \in Accounts, x \in Amounts, r \in Accounts, o \in Accounts,
          fw \in BOOLEAN :
          Withdraw(c, x, r, o, fw)
    \/ \E c \in Accounts, p \in Protocols, o \in Offers, m \in Moods,
          blk \in Blocks :
          Rebalance(c, p, o[1], o[2], m[1], m[2], blk)
    \/ \E c \in Accounts, x \in Amounts, r \in Accounts : Mint(c, x, r)
    \/ \E c \in Accounts, x \in Amounts, r \in Accounts, o \in Accounts :
          Redeem(c, x, r, o)
    \/ \E f \in Accounts, t \in Accounts, x \in Amounts : Transfer(f, t, x)
    \/ \E c \in Accounts, p \in Protocols :
          \E a \in {AdapterFor(p), NULL} : SetAdapter(c, p, a)
    \/ \E c \in Accounts : Pause(c)
    \/ \E c \in Accounts : Unpause(c)
    \/ \E a \in AdapterAddrs : AddYield(a, 1)
    \/ \E a \in AdapterAddrs : ReduceBalance(a, 1)

Next == VaultNext

Spec == Init /\ [][Next]_vars

RegistrySpec == Init /\ [][RegistryNext]_vars

(***************************************************************************)
(* FactorySpec: the registry deployed by the SafeWalletFactory.  Accounts  *)
(* create Safes with session keys through the factory, and call the        *)
(* registry directly as before (its functions are external and open).      *)
(***************************************************************************)
SaltNonces == {0, 1}

FactoryNext ==
    \/ \E c \in Accounts, o \in Accounts \cup {NULL},
          k \in SessionKeyAddrs \cup {NULL}, v \in {"vault", NULL},
          salt \in SaltNonces, created \in BOOLEAN :
          CreateSafe(c, o, k, v, salt, created)
    \/ \E c \in Accounts, k \in SessionKeyAddrs, f \in Selectors,
          mt \in 0..MaxTx, w \in Windows :
          Grant(c, k, "vault", f, 1, mt, w[1], w[2])
    \/ \E c \in Accounts, id \in KnownKeys : RevokeAtFactory(c, id)
    \/ \E id \in KnownKeys, t \in Targets, f \in Selectors \cup {FactorySelector},
          v \in Values, sig \in Signatures, h \in Messages :
          ValidateWithin(id, t, f, v, sig, h)
    \/ Tick

FactorySpec == Init /\ [][FactoryNext]_vars

(***************************************************************************)
(* FundedSpec: the vault ledger followed through several deposits at       *)
(* changing share prices.  The depositor holds FundedWallet; adapter calls *)
(* do not fail, accounts act on their own shares, and the funds move       *)
(* between adapters only by reallocations that pass the gate (all placed   *)
(* in block MaxBlock: block numbers play no part in the ledger's           *)
(* arithmetic).  Yield accrues and funds are lost where the funds are: in  *)
(* the active adapter.                                                     *)
(***************************************************************************)
FundedInit ==
    /\ activeProtocol = 0
    /\ adapters = [p \in Protocols |-> AdapterFor(p)]
    /\ lastRebalanceBlock = 0
    /\ paused = FALSE
    /\ principalDeposited = [a \in Accounts |-> 0]
    /\ totalPrincipal = 0
    /\ shareBalance = [a \in Accounts |-> 0]
    /\ usdcBalance = [h \in Holders |-> IF h = "u1" THEN FundedWallet ELSE 0]
    /\ adapterBalance = [a \in AdapterAddrs |-> 0]
    /\ faults = 0
    /\ status = "NOT_ENTERED"
    /\ frame = <<>>
    /\ RegistryInit
    /\ DaemonInit

FundedNext ==
    \/ \E c \in Accounts, x \in Amounts, r \in Accounts, sl \in Slips :
          Deposit(c, x, r, FALSE, sl)
    \/ \E c \in Accounts, x \in Amounts : Withdraw(c, x, c, c, FALSE)
    \/ \E p \in Protocols :
          Rebalance(Owner, p, MIN_REBALANCE_THRESHOLD, MAX_GAS_COST_THRESHOLD,
                    FALSE, FALSE, MaxBlock)
    \/ \E c \in Accounts, x \in Amounts : Mint(c, x, c)
    \/ \E c \in Accounts, x \in Amounts : Redeem(c, x, c, c)
    \/ \E f \in Accounts, to \in Accounts, x \in Amounts : Transfer(f, to, x)
    \/ \E y \in 1..FundedWallet : AddYield(adapters[activeProtocol], y)
    \/ ReduceBalance(adapters[activeProtocol], 1)

FundedSpec == FundedInit /\ [][FundedNext]_vars

(***************************************************************************)
(* LosslessSpec: FundedSpec with adapters that hold what they report or    *)
(* less: no slippage and no reduceBalance; yield still accrues.            *)
(***************************************************************************)
LosslessNext ==
    \/ \E c \in Accounts, x \in Amounts, r \in Accounts :
          Deposit(c, x, r, FALSE, 0)
    \/ \E c \in Accounts, x \in Amounts : Withdraw(c, x, c, c, FALSE)
    \/ \E p \in Protocols, blk \in Blocks :
          Rebalance(Owner, p, MIN_REBALANCE_THRESHOLD, MAX_GAS_COST_THRESHOLD,
                    FALSE, FALSE, blk)
    \/ \E c \in Accounts, x \in Amounts : Mint(c, x, c)
    \/ \E c \in Accounts, x \in Amounts : Redeem(c, x, c, c)
    \/ \E f \in Accounts, to \in Accounts, x \in Amounts : Transfer(f, to, x)
    \/ \E a \in AdapterAddrs, y \in 1..FundedWallet : AddYield(a, y)

LosslessSpec == FundedInit /\ [][LosslessNext]_vars

(***************************************************************************)
(* AdminSpec: the vault under its administrative operations.  The owner    *)
(* rebinds any protocol slot to any deployed adapter and toggles the       *)
(* pause; accounts deposit, mint, withdraw and redeem for themselves and   *)
(* transfer shares, and adapter calls do not fail.                         *)
(***************************************************************************)
AdminNext ==
    \/ \E c \in Accounts, p \in Protocols, a \in AdapterAddrs \cup {NULL} :
          SetAdapter(c, p, a)
    \/ \E c \in Accounts : Pause(c)
    \/ \E c \in Accounts : Unpause(c)
    \/ \E c \in Accounts, x \in Amounts : Deposit(c, x, c, FALSE, 0)
    \/ \E c \in Accounts, x \in Amounts : Withdraw(c, x, c, c, FALSE)
    \/ \E c \in Accounts, x \in Amounts : Mint(c, x, c)
    \/ \E c \in Accounts, x \in Amounts : Redeem(c, x, c, c)
    \/ \E f \in Accounts, to \in Accounts, x \in Amounts : Transfer(f, to, x)

AdminSpec == Init /\ [][AdminNext]_vars

(***************************************************************************)
(* MarkerSpec: every entry point of the vault, with reallocations called   *)
(* by anyone with passing and failing gate figures, in any block, against  *)
(* adapters that may fail either leg.  Accounts deposit, mint, withdraw    *)
(* and redeem for themselves and transfer shares; the owner toggles the    *)
(* pause and rewires a slot to the adapter deployed for it; no one moves   *)
(* an adapter's balance from outside.                                      *)
(***************************************************************************)
MarkerNext ==
    \/ \E c \in Accounts, p \in Protocols, o \in Offers, m \in Moods,
          blk \in Blocks :
          Rebalance(c, p, o[1], o[2], m[1], m[2], blk)
    \/ \E c \in Accounts, x \in Amounts : Deposit(c, x, c, FALSE, 0)
    \/ \E c \in Accounts, x \in Amounts : Withdraw(c, x, c, c, FALSE)
    \/ \E c \in Accounts, x \in Amounts : Mint(c, x, c)
    \/ \E c \in Accounts, x \in Amounts : Redeem(c, x, c, c)
    \/ \E f \in Accounts, to \in Accounts, x \in Amounts : Transfer(f, to, x)
    \/ \E c \in Accounts, p \in Protocols :
          \E a \in {AdapterFor(p), NULL} : SetAdapter(c, p, a)
    \/ \E c \in Accounts : Pause(c)
    \/ \E c \in Accounts : Unpause(c)

MarkerSpec == Init /\ [][MarkerNext]_vars

(***************************************************************************)
(* PooledSpec: the vault under deposit, withdraw and rebalance only,       *)
(* called by anyone for anyone with any gate figures, against              *)
(* zero-slippage adapters that may fail any call and whose balances no one *)
(* moves from outside.  Both accounts hold FundedWallet USDC at the start. *)
(***************************************************************************)
PooledInit ==
    /\ activeProtocol = 0
    /\ adapters = [p \in Protocols |-> AdapterFor(p)]
    /\ lastRebalanceBlock = 0
    /\ paused = FALSE
    /\ principalDeposited = [a \in Accounts |-> 0]
    /\ totalPrincipal = 0
    /\ shareBalance = [a \in Accounts |-> 0]
    /\ usdcBalance = [h \in Holders |-> IF h \in Accounts THEN FundedWallet ELSE 0]
    /\ adapterBalance = [a \in AdapterAddrs |-> 0]
    /\ faults = 0
    /\ status = "NOT_ENTERED"
    /\ frame = <<>>
    /\ RegistryInit
    /\ DaemonInit

PooledNext ==
    \/ \E c \in Accounts, x \in Amounts, r \in Accounts, fd \in BOOLEAN :
          Deposit(c, x, r, fd, 0)
    \/ \E c \in Accounts, x \in Amounts, r \in Accounts, o \in Accounts,
          fw \in BOOLEAN :
          Withdraw(c, x, r, o, fw)
    \/ \E c \in Accounts, p \in Protocols, o \in Offers, m \in Moods,
          blk \in Blocks :
          Rebalance(c, p, o[1], o[2], m[1], m[2], blk)

PooledSpec == PooledInit /\ [][PooledNext]_vars

(***************************************************************************)
(* EmergencySpec: PooledSpec with the adapter owner's emergency exit on    *)
(* any of the three adapters.                                              *)
(***************************************************************************)
EmergencyNext ==
    \/ PooledNext
    \/ \E a \in AdapterAddrs : EmergencyWithdraw(a)

EmergencySpec == PooledInit /\ [][EmergencyNext]_vars

(***************************************************************************)
(* KeeperSpec: the vault with its depositors and owner, and the keeper     *)
(* running its check against it.                                           *)
(***************************************************************************)
KeeperNext ==
    \/ \E apys \in ApyTables, big \in BOOLEAN, down \in BOOLEAN,
          bill \in GasBills, blk \in Blocks :
          KeeperCheck(apys, big, down, bill, blk)
    \/ \E c \in Accounts, x \in Amounts, r \in Accounts : Deposit(c, x, r, FALSE, 0)
    \/ \E c \in Accounts, x \in Amounts, r \in Accounts : Withdraw(c, x, r, c, FALSE)
    \/ \E c \in Accounts : Pause(c)
    \/ \E c \in Accounts : Unpause(c)

KeeperSpec == PooledInit /\ [][KeeperNext]_vars

(***************************************************************************)
(* DaemonSpec: the keeper daemon taking start() and stop() requests in any *)
(* order while its timers fire, next to a vault that takes deposits.       *)
(***************************************************************************)
DaemonNext ==
    \/ \E c \in StartCalls : StartCall(c)
    \/ \E c \in StartCalls, ok \in BOOLEAN : InitializeDone(c, ok)
    \/ \E c \in StartCalls, apys \in DaemonApyTables, big \in BOOLEAN,
          gp \in GasPrices, blk \in Blocks :
          FirstCheckDone(c, apys, big, gp, blk)
    \/ Stop
    \/ \E id \in runtime.timers, apys \in DaemonApyTables, big \in BOOLEAN,
          gp \in GasPrices, blk \in Blocks :
          TimerFires(id, apys, big, gp, blk)
    \/ \E c \in Accounts, x \in Amounts : Deposit(c, x, c, FALSE, 0)

DaemonSpec == PooledInit /\ [][DaemonNext]_vars

ReentrantNext ==
    \/ \E c \in Accounts, x \in Amounts, r \in Accounts : EnterDeposit(c, x, r)
    \/ \E fd \in BOOLEAN : ReturnDeposit(fd)
    \/ \E c \in Accounts, x \in Amounts, r \in Accounts, o \in Accounts :
          EnterWithdraw(c, x, r, o)
    \/ \E fw \in BOOLEAN : ReturnWithdraw(fw)
    \/ \E c \in Accounts, p \in Protocols, blk \in Blocks :
          EnterRebalance(c, p, MIN_REBALANCE_THRESHOLD, MAX_GAS_COST_THRESHOLD, blk)
    \/ \E fw \in BOOLEAN : ReturnWithdrawLeg(fw)
    \/ \E fd \in BOOLEAN : ReturnDepositLeg(fd)
    \/ \E x \in Amounts, r \in Accounts : ReenterDeposit(x, r)
    \/ \E x \in Amounts, r \in Accounts, o \in Accounts : ReenterWithdraw(x, r, o)
    \/ \E p \in Protocols, blk \in Blocks :
          ReenterRebalance(p, MIN_REBALANCE_THRESHOLD, MAX_GAS_COST_THRESHOLD, blk)
    \/ \E x \in Amounts, r \in Accounts : ReenterMint(x, r)
    \/ \E x \in Amounts, r \in Accounts, o \in Accounts : ReenterRedeem(x, r, o)

ReentrantSpec == Init /\ [][ReentrantNext]_vars

(***************************************************************************)
(* Properties of the vault (under Spec).  What a call would do in a state  *)
(* is read from its operator: res.err is the error it reverts with and     *)
(* Outcome(res) the vault after it.                                        *)
(***************************************************************************)
\* figures offered to the gate: below, at and above each threshold
GateGains == {20, 29, 30, 50}
GateCosts == {5, 10, 11, 15}
\* the figures that pass the gate
PassingGains == {g \in GateGains : g >= MIN_REBALANCE_THRESHOLD}
PassingCosts == {k \in GateCosts : k <= MAX_GAS_COST_THRESHOLD}

\* the active adapter
ActiveAdapter == adapters[activeProtocol]

\* the call reverts, and the vault after it is the vault before it
Aborts(res) == res.err # "none" /\ Outcome(res) = Cur

\* maxWithdraw(owner)
MaxWithdraw(owner) == ConvertToAssetsFloor(Cur, shareBalance[owner])

\* C1: a rebalance called by an account other than the owner is rejected and
\* leaves activeProtocol, every adapter balance and lastRebalanceBlock as they
\* were, even with passing figures and funds in the vault.
C1_OnlyOwnerRebalances ==
    \A c \in Accounts \ {Owner}, p \in Protocols,
       g \in PassingGains, k \in PassingCosts :
        LET res == VaultRebalance(Cur, c, p, g, k, MaxBlock)
        IN /\ res.err # "none"
           /\ Outcome(res).active = activeProtocol
           /\ Outcome(res).abal = adapterBalance
           /\ Outcome(res).lastReb = lastRebalanceBlock

\* C2: in every reachable state the principal recorded per account sums to
\* totalPrincipal.
C2_PrincipalSumsToTotal ==
    SumOver(principalDeposited, Accounts) = totalPrincipal

\* principal is recorded for an account that no longer holds the shares (they
\* were transferred or redeemed)
C2_Witness ==
    \E a \in Accounts : principalDeposited[a] > 0 /\ shareBalance[a] = 0

\* C6: a rebalance that passes the gate and whose withdrawal leg or deposit
\* leg fails (the adapter refuses, or the old adapter cannot pay out
\* totalAssets()) reverts as a whole: activeProtocol, lastRebalanceBlock, the
\* idle balance and every adapter balance are as before the call.
C6_RebalanceLegFailureAborts ==
    \A c \in Accounts, p \in Protocols, fd \in BOOLEAN, fw \in BOOLEAN,
       blk \in Blocks :
        LET res == VaultRebalance(World(fd, fw), c, p, 50, 5, blk)
            amount == TotalAssets(Cur)
        IN (/\ ~paused
            /\ amount > 0
            /\ \/ fd
               \/ fw
               \/ adapterBalance[ActiveAdapter] < amount
               \/ usdcBalance[ActiveAdapter] < amount)
           => /\ Aborts(res)
              /\ Outcome(res).active = activeProtocol
              /\ Outcome(res).lastReb = lastRebalanceBlock
              /\ Outcome(res).usdc = usdcBalance
              /\ Outcome(res).abal = adapterBalance

\* funds sit in the active adapter, a rebalance to MORPHO goes through when the
\* adapters work and fails in its deposit leg when the target refuses
C6_Witness ==
    /\ adapterBalance[ActiveAdapter] > 0
    /\ VaultRebalance(Cur, Owner, 1, 50, 5, MaxBlock).err = "none"
    /\ VaultRebalance(World(TRUE, FALSE), Owner, 1, 50, 5, MaxBlock).err
          = "ForcedDepositFailure"
    /\ VaultRebalance(World(FALSE, TRUE), Owner, 1, 50, 5, MaxBlock).err
          = "ForcedWithdrawFailure"

\* C7: the gate checks gain, then cost, then funds, each with its own error:
\* a rebalance with expectedGain < 30 never succeeds and on an unpaused vault
\* fails with InsufficientYieldGain whatever the cost and the balance; with
\* expectedGain >= 30 and gasCost > 10 it fails with GasCostTooHigh; with both
\* passed and totalAssets() = 0 it fails with NoFundsToRebalance; 30 and 10
\* pass the threshold checks; a rejected call changes nothing.
C7_GateOrderAndErrors ==
    \A c \in Accounts, p \in Protocols, g \in GateGains, k \in GateCosts :
        LET res == VaultRebalance(Cur, c, p, g, k, MaxBlock)
        IN /\ g < 30 => res.err # "none"
           /\ (~paused /\ g < 30) => res.err = "InsufficientYieldGain"
           /\ (~paused /\ g >= 30 /\ k > 10) => res.err = "GasCostTooHigh"
           /\ (~paused /\ g >= 30 /\ k <= 10 /\ TotalAssets(Cur) = 0)
                 => res.err = "NoFundsToRebalance"
           /\ (g = 30 /\ k = 10)
                 => res.err \notin {"InsufficientYieldGain", "GasCostTooHigh"}
           /\ res.err \in {"InsufficientYieldGain", "GasCostTooHigh",
                           "NoFundsToRebalance", "EnforcedPause"}
                 => Aborts(res)

\* an unpaused vault holding funds, where the boundary figures go through and
\* the figures next to them are rejected, each by its own check
C7_Witness ==
    /\ ~paused
    /\ TotalAssets(Cur) > 0
    /\ VaultRebalance(Cur, Owner, 1, 30, 10, MaxBlock).err = "none"
    /\ VaultRebalance(Cur, Owner, 1, 29, 11, MaxBlock).err = "InsufficientYieldGain"
    /\ VaultRebalance(Cur, Owner, 1, 30, 11, MaxBlock).err = "GasCostTooHigh"

C9_FailedForwardingAbortsDeposit ==
    \A c \in Accounts, x \in Amounts, r \in Accounts :
        LET res == VaultDeposit(World(TRUE, FALSE), c, x, r)
        IN /\ Aborts(res)
           /\ Outcome(res).shares = shareBalance
           /\ Outcome(res).principal = principalDeposited
           /\ Outcome(res).totalPrincipal = totalPrincipal
           /\ Outcome(res).usdc = usdcBalance
           /\ Outcome(res).abal = adapterBalance

\* a depositor whose deposit goes through when the adapter works and is
\* stopped at the forwarding when the adapter refuses, after a rebalance
C9_Witness ==
    /\ activeProtocol # 0
    /\ \E c \in Accounts, r \in Accounts :
          /\ VaultDeposit(Cur, c, MaxAmount, r).err = "none"
          /\ VaultDeposit(World(TRUE, FALSE), c, MaxAmount, r).err
                = "ForcedDepositFailure"

\* C10: a withdrawal that the active adapter cannot supply in full, or that
\* the owner's shares do not cover, reverts with the owner's shares, the
\* principal and every asset balance as before; and in every reachable state
\* (so also after such a revert) a withdrawal by an owner of shares, of an
\* amount the adapter can supply and the shares cover, succeeds and pays it.
C10_WithdrawAllOrNothing ==
    \A c \in Accounts, x \in Amounts, r \in Accounts, o \in Accounts,
       fw \in BOOLEAN :
        LET res == VaultWithdraw(World(FALSE, fw), c, x, r, o)
            cannot == \/ fw
                      \/ adapterBalance[ActiveAdapter] < x
                      \/ usdcBalance[ActiveAdapter] < x
                      \/ x > MaxWithdraw(o)
        IN /\ cannot
              => /\ Aborts(res)
                 /\ Outcome(res).shares = shareBalance
                 /\ Outcome(res).principal = principalDeposited
                 /\ Outcome(res).totalPrincipal = totalPrincipal
                 /\ Outcome(res).usdc = usdcBalance
                 /\ Outcome(res).abal = adapterBalance
           /\ (~cannot /\ c = o /\ shareBalance[o] > 0)
              => /\ res.err = "none"
                 /\ Outcome(res).usdc[r] = usdcBalance[r] + x
                 /\ Outcome(res).abal[ActiveAdapter] = adapterBalance[ActiveAdapter] - x

\* an owner of shares asks for more than the adapter holds after a loss, which
\* fails, while a smaller amount would be paid
C10_Witness ==
    \E o \in Accounts :
        /\ shareBalance[o] > 0
        /\ VaultWithdraw(Cur, o, MaxAmount, o, o).err # "none"
        /\ VaultWithdraw(Cur, o, 0, o, o).err = "none"
        /\ faults > 0

(***************************************************************************)
(* Properties of the session key registry (under RegistrySpec).            *)
(***************************************************************************)
\* selectors a caller may present: the granted ones, withdraw and transfer
CallSelectors == Selectors \cup {"withdraw", "transfer"}

\* C3: validateSessionKey succeeds only if the grant exists and is active,
\* validAfter <= now <= validUntil, transactionCount < maxTransactions,
\* value <= valueLimit, target and functionSelector are the granted ones and
\* the signature recovers to the grant's sessionKey; so a key granted for
\* rebalance on the vault is not validated for another function, another
\* contract or a value above the limit.
C3_ValidatedOnlyForGrantedCall ==
    \A id \in KnownKeys, t \in Targets, f \in CallSelectors, v \in Values,
       sig \in Signatures, h \in Messages :
        LET res == ValidateSessionKey(Registry, id, t, f, v, sig, h, now)
            data == KeyData(Registry, id)
        IN res.err = "none"
           => /\ id \in DOMAIN sessionKeys
              /\ data.isActive
              /\ data.validAfter <= now /\ now <= data.validUntil
              /\ data.transactionCount < data.maxTransactions
              /\ v <= data.valueLimit
              /\ t = data.target
              /\ f = data.functionSelector
              /\ sig.signer = data.sessionKey /\ sig.msg = h
              /\ (data.target = "vault" /\ data.functionSelector = "rebalance")
                    => /\ t # "other"
                       /\ f \notin {"deposit", "withdraw", "transfer"}

\* a key granted for rebalance on the vault has been validated
C3_Witness ==
    \E id \in DOMAIN sessionKeys :
        /\ sessionKeys[id].target = "vault"
        /\ sessionKeys[id].functionSelector = "rebalance"
        /\ sessionKeys[id].transactionCount > 0

\* the grant is active and now is within its window
Usable(data) == data.isActive /\ data.validAfter <= now /\ now <= data.validUntil

\* C4: transactionCount never exceeds maxTransactions, and once a grant has
\* been validated maxTransactions times the next call with the same
\* parameters fails with ExceededTransactionLimit.
C4_BudgetNeverExceeded ==
    /\ \A id \in DOMAIN sessionKeys :
          sessionKeys[id].transactionCount <= sessionKeys[id].maxTransactions
    /\ \A id \in DOMAIN sessionKeys, t \in Targets, f \in Selectors, v \in Values,
          sig \in Signatures, h \in Messages :
          LET res == ValidateSessionKey(Registry, id, t, f, v, sig, h, now)
              data == KeyData(Registry, id)
          IN /\ (res.err = "none"
                 /\ res.s.keys[id].transactionCount = data.maxTransactions)
                => ValidateSessionKey(res.s, id, t, f, v, sig, h, now).err
                      = "ExceededTransactionLimit"
             /\ (Usable(data) /\ data.transactionCount = data.maxTransactions)
                => res.err = "ExceededTransactionLimit"

\* a grant with a budget has used all of it and is still active in its window
C4_Witness ==
    \E id \in DOMAIN sessionKeys :
        /\ sessionKeys[id].maxTransactions > 0
        /\ sessionKeys[id].transactionCount = sessionKeys[id].maxTransactions
        /\ Usable(sessionKeys[id])

\* a grant that was revoked: grantSessionKey stores grants active and only
\* revokeSessionKey clears the flag
Revoked(id) == id \in DOMAIN sessionKeys /\ ~sessionKeys[id].isActive

\* C5: once a grant is revoked, every validateSessionKey for it fails with
\* SessionKeyNotActive, granting the identical parameters again is rejected,
\* and no step of the registry makes the grant active again.
C5_RevocationIsTerminal ==
    /\ [](\A id \in DOMAIN sessionKeys :
            Revoked(id)
            => /\ \A t \in Targets, f \in Selectors, v \in Values,
                     sig \in Signatures, h \in Messages :
                     ValidateSessionKey(Registry, id, t, f, v, sig, h, now).err
                        = "SessionKeyNotActive"
               /\ \A vl \in Values, mt \in 0..MaxTx :
                     LET res == GrantSessionKey(Registry, id[1], id[2], id[3], id[4],
                                                vl, mt, id[5], id[6], now)
                     IN /\ res.err \in {"SessionKeyAlreadyExists", "AlreadyExpired"}
                        /\ id[6] > now => res.err = "SessionKeyAlreadyExists"
                        /\ ~RegistryOutcome(res).keys[id].isActive)
    /\ [][\A id \in DOMAIN sessionKeys :
            Revoked(id) => id \in DOMAIN sessionKeys' /\ ~sessionKeys'[id].isActive]_vars

\* a revoked grant whose window is open and whose budget is not used up
C5_Witness ==
    \E id \in DOMAIN sessionKeys :
        /\ Revoked(id)
        /\ sessionKeys[id].validAfter <= now /\ now <= sessionKeys[id].validUntil
        /\ sessionKeys[id].transactionCount < sessionKeys[id].maxTransactions

\* a reallocation is read as <<caller, targetProtocol, expectedGain, gasCost, blk>>
RebalanceCalls == Accounts \X Protocols \X PassingGains \X PassingCosts \X (1..MaxBlock)

RebalanceOf(k) == VaultRebalance(Cur, k[1], k[2], k[3], k[4], k[5])

\* what a successful reallocation res leaves untouched: share balances (and so
\* the share supply), every principalDeposited entry, totalPrincipal and the
\* adapters other than the two involved
KeepsLedger(res, targetProtocol) ==
    /\ res.s.shares = shareBalance
    /\ TotalSupply(res.s) = TotalSupply(Cur)
    /\ res.s.principal = principalDeposited
    /\ res.s.totalPrincipal = totalPrincipal
    /\ \A a \in AdapterAddrs \ {ActiveAdapter, adapters[targetProtocol]} :
          res.s.abal[a] = adapterBalance[a]

C11_ReentrantCallsRejected ==
    /\ ~InFlight => status = "NOT_ENTERED"
    /\ InFlight =>
         \A x \in 1..MaxAmount, r \in Accounts, o \in Accounts :
            /\ ReentrantDeposit(x, r).err # "none"
            /\ ReentrantWithdraw(x, r, o).err # "none"
            /\ \A p \in Protocols, blk \in Blocks :
                  ReentrantRebalance(p, MIN_REBALANCE_THRESHOLD,
                                     MAX_GAS_COST_THRESHOLD, blk).err # "none"
            /\ ReentrantMint(x, r).err # "none"
            /\ ReentrantRedeem(x, r, o).err # "none"

(***************************************************************************)
(* Properties of share pricing and principal tracking (under FundedSpec).  *)
(* A deposit is read as <<caller, assets, receiver, slippage>>.            *)
(***************************************************************************)
DepositCalls == Accounts \X Amounts \X Accounts \X Slips

DepositOf(k) == VaultDeposit(Slipping(Cur, k[4]), k[1], k[2], k[3])

\* shares a successful call res has added to the balance of account a
Minted(res, a) == res.s.shares[a] - shareBalance[a]

\* C12 (as stated): a successful deposit mints exactly `assets` shares when no
\* shares are outstanding, and floor(assets * totalSupply / totalAssets)
\* shares, figures taken before the deposit, when shares are outstanding (and
\* the vault holds assets to divide by).
C12_SharesProRata ==
    \A k \in DepositCalls :
       LET res == DepositOf(k)
       IN res.err = "none" =>
             IF TotalSupply(Cur) = 0 THEN Minted(res, k[3]) = k[2]
             ELSE TotalAssets(Cur) > 0 =>
                    Minted(res, k[3])
                       = (k[2] * TotalSupply(Cur)) \div TotalAssets(Cur)

\* C12 (amended): a successful deposit mints exactly
\* floor(assets * (totalSupply + 1) / (totalAssets + 1)) shares to the
\* receiver, figures taken before the deposit, whatever the share price;
\* these are `assets` shares when the vault holds neither shares nor assets.
C12_SharesWithVirtualOffset ==
    LET supply == TotalSupply(Cur)
        assets == TotalAssets(Cur)
    IN \A k \in DepositCalls :
          LET res == DepositOf(k)
          IN res.err = "none" =>
                /\ Minted(res, k[3]) = (k[2] * (supply + 1)) \div (assets + 1)
                /\ supply = 0 /\ assets = 0 => Minted(res, k[3]) = k[2]

\* a positive deposit goes through in a vault whose shares are not worth one
\* asset each
C12_Witness ==
    /\ TotalSupply(Cur) > 0
    /\ TotalAssets(Cur) # TotalSupply(Cur)
    /\ \E k \in DepositCalls :
          k[2] > 0 /\ DepositOf(k).err = "none" /\ Minted(DepositOf(k), k[3]) > 0

\* C13: a successful deposit raises principalDeposited[receiver] and
\* totalPrincipal by exactly the amount deposited, whatever the share price,
\* the caller and the adapter's slippage, and leaves every other account's
\* principal as it was; with a zero-slippage adapter it raises totalAssets()
\* by exactly that amount.
C13_DepositBooksPrincipal ==
    \A k \in DepositCalls :
       LET res == DepositOf(k)
       IN res.err = "none" =>
             /\ res.s.principal[k[3]] = principalDeposited[k[3]] + k[2]
             /\ res.s.totalPrincipal = totalPrincipal + k[2]
             /\ \A a \in Accounts \ {k[3]} :
                   res.s.principal[a] = principalDeposited[a]
             /\ k[4] = 0 => TotalAssets(res.s) = TotalAssets(Cur) + k[2]

\* a positive deposit on behalf of another account goes through under
\* slippage, at a share price other than one
C13_Witness ==
    /\ TotalSupply(Cur) > 0
    /\ TotalAssets(Cur) > TotalSupply(Cur)
    /\ \E k \in DepositCalls :
          /\ k[2] > 0 /\ k[4] > 0 /\ k[1] # k[3]
          /\ DepositOf(k).err = "none"
          /\ TotalAssets(DepositOf(k).s) < TotalAssets(Cur) + k[2]

\* a withdrawal is read as <<caller, assets, receiver, owner, slippage>>
WithdrawCalls == Accounts \X Amounts \X Accounts \X Accounts \X Slips

WithdrawOf(k) == VaultWithdraw(Slipping(Cur, k[5]), k[1], k[2], k[3], k[4])

\* shares a successful call res has taken from the balance of account a
Burned(res, a) == shareBalance[a] - res.s.shares[a]

\* C14 (as stated): a successful withdraw lowers principalDeposited[owner] and
\* totalPrincipal by exactly
\* floor(principalDeposited[owner] * sharesBurned / sharesOwnedBeforeBurn),
\* sharesBurned being the shares the call burns; the principal stays
\* non-negative and no other account's principal changes.
C14_PrincipalFollowsBurnedShares ==
    \A k \in WithdrawCalls :
       WithdrawOf(k).err = "none" =>
          LET owner == k[4]
              cut == (principalDeposited[owner] * Burned(WithdrawOf(k), owner))
                        \div shareBalance[owner]
          IN /\ WithdrawOf(k).s.principal[owner] = principalDeposited[owner] - cut
             /\ WithdrawOf(k).s.totalPrincipal = totalPrincipal - cut
             /\ WithdrawOf(k).s.principal[owner] >= 0
             /\ \A a \in Accounts \ {owner} :
                   WithdrawOf(k).s.principal[a] = principalDeposited[a]

\* amounts put through the conversions
Probes == 0..(2 * FundedWallet + 1)

\* convertToAssets(convertToShares(x)) in the state s
RoundTrip(s, x) == ConvertToAssetsFloor(s, ConvertToSharesFloor(s, x))

\* C16 (as stated): in every state with shares outstanding and for every
\* amount x, convertToAssets(convertToShares(x)) differs from x by at most one.
C16_RoundTripWithinOne ==
    TotalSupply(Cur) > 0 =>
       \A x \in Probes :
          LET back == RoundTrip(Cur, x) IN back - x <= 1 /\ x - back <= 1

\* C16 (amended): in every state and for every amount x,
\* convertToAssets(convertToShares(x)) never exceeds x and falls short of it
\* by less than (totalAssets + 1) / (totalSupply + 1) + 1; it is within one of
\* x whenever totalAssets() <= totalSupply().
C16_RoundTripWithinSharePrice ==
    LET supply == TotalSupply(Cur)
        assets == TotalAssets(Cur)
    IN \A x \in Probes :
          LET back == RoundTrip(Cur, x)
          IN /\ back <= x
             /\ (x - back - 1) * (supply + 1) < assets + 1
             /\ assets <= supply => x - back <= 1

\* shares are outstanding and some amount loses two units or more in the
\* round trip
C16_Witness ==
    /\ TotalSupply(Cur) > 0
    /\ \E x \in Probes : x - RoundTrip(Cur, x) >= 2

\* C17 (as stated): every successful deposit of a positive amount into a
\* vault with shares outstanding mints at least one share to the receiver.
C17_NoZeroShareDeposit ==
    \A k \in DepositCalls :
       (DepositOf(k).err = "none" /\ k[2] > 0 /\ TotalSupply(Cur) > 0)
          => Minted(DepositOf(k), k[3]) >= 1

\* convertToAssets, right after the successful deposit res, of the shares it
\* minted to account a
MintedValue(res, a) == ConvertToAssetsFloor(res.s, Minted(res, a))

\* C18: right after a successful deposit of x, the shares it minted convert
\* back (convertToAssets) to at most x.
C18_MintedSharesWorthAtMostDeposit ==
    \A k \in DepositCalls :
       LET res == DepositOf(k)
       IN res.err = "none" => MintedValue(res, k[3]) <= k[2]

\* a positive deposit into a vault with shares outstanding goes through,
\* mints shares, and they are worth less than what was paid
C18_Witness ==
    /\ TotalSupply(Cur) > 0
    /\ \E k \in DepositCalls :
          /\ k[2] > 0
          /\ DepositOf(k).err = "none"
          /\ Minted(DepositOf(k), k[3]) > 0
          /\ MintedValue(DepositOf(k), k[3]) < k[2]

(***************************************************************************)
(* Properties under adapters without loss or slippage (LosslessSpec)       *)
(***************************************************************************)
\* C15 (as stated): with adapters that neither lose funds nor apply slippage,
\* totalPrincipal never exceeds totalAssets().
C15_PrincipalCoveredByAssets == totalPrincipal <= TotalAssets(Cur)

\* sequences of target protocols of up to two reallocations
Paths == {<<>>} \cup {<<p>> : p \in Protocols}
            \cup {<<p, q>> : p \in Protocols, q \in Protocols}

\* the vault after the owner's reallocations along path, each passing the
\* gate, starting from s: the first error, if one of them reverts
RECURSIVE Reallocated(_, _)
Reallocated(s, path) ==
    IF path = <<>> THEN Ok(s)
    ELSE LET r == VaultRebalance(s, Owner, Head(path), MIN_REBALANCE_THRESHOLD,
                                 MAX_GAS_COST_THRESHOLD, MaxBlock)
         IN IF r.err # "none" THEN r ELSE Reallocated(r.s, Tail(path))

\* depositor d deposits x for itself, the funds are reallocated along path,
\* and d withdraws x
TripDeposit(d, x) == VaultDeposit(Cur, d, x, d)
TripReallocated(d, x, path) == Reallocated(TripDeposit(d, x).s, path)
TripWithdraw(d, x, path) ==
    VaultWithdraw(TripReallocated(d, x, path).s, d, x, d, d)

\* C19: with zero-slippage adapters and no yield accrued, a depositor who
\* deposits x > 0 into an empty vault receives x shares and, after any
\* successful reallocations, can withdraw x; the depositor then holds no
\* shares, has principalDeposited 0 and the asset balance held before the
\* deposit.
C19_DepositWithdrawRoundTrip ==
    (TotalSupply(Cur) = 0 /\ faults = 0) =>
       \A d \in Accounts, x \in 1..MaxAmount, path \in Paths :
          (TripDeposit(d, x).err = "none" /\ TripReallocated(d, x, path).err = "none")
             => /\ Minted(TripDeposit(d, x), d) = x
                /\ TripWithdraw(d, x, path).err = "none"
                /\ TripWithdraw(d, x, path).s.shares[d] = 0
                /\ TripWithdraw(d, x, path).s.principal[d] = 0
                /\ TripWithdraw(d, x, path).s.usdc[d] = usdcBalance[d]

\* the vault is empty again after earlier activity, and a depositor can make
\* the round trip through two reallocations
C19_Witness ==
    /\ TotalSupply(Cur) = 0
    /\ faults = 0
    /\ lastRebalanceBlock > 0
    /\ \E d \in Accounts, x \in 1..MaxAmount, path \in Paths :
          /\ Len(path) = 2
          /\ TripDeposit(d, x).err = "none"
          /\ TripReallocated(d, x, path).err = "none"
          /\ TripWithdraw(d, x, path).err = "none"

(***************************************************************************)
(* Properties of pausing and administration (under Spec)                   *)
(***************************************************************************)
\* C21 (as stated): while the vault is paused every deposit is rejected and
\* changes no state, and no call by any account through any entry point of
\* the vault (deposit, mint, withdraw, redeem, share transfer, rebalance,
\* setAdapter, pause) leaves the supply of shares higher than it was.
C21_PauseFreezesShareSupply ==
    paused =>
       /\ \A k \in DepositCalls : Aborts(DepositOf(k))
       /\ \A c \in Accounts, x \in Amounts, r \in Accounts, o \in Accounts :
             /\ TotalSupply(Outcome(VaultMint(Cur, c, x, r))) <= TotalSupply(Cur)
             /\ TotalSupply(Outcome(VaultWithdraw(Cur, c, x, r, o))) <= TotalSupply(Cur)
             /\ TotalSupply(Outcome(VaultRedeem(Cur, c, x, r, o))) <= TotalSupply(Cur)
             /\ TotalSupply(Outcome(ShareTransfer(Cur, c, r, x))) <= TotalSupply(Cur)
             /\ TotalSupply(Outcome(VaultPause(Cur, c))) <= TotalSupply(Cur)
       /\ \A k \in RebalanceCalls :
             TotalSupply(Outcome(RebalanceOf(k))) <= TotalSupply(Cur)
       /\ \A c \in Accounts, p \in Protocols, a \in AdapterAddrs \cup {NULL} :
             TotalSupply(Outcome(VaultSetAdapter(Cur, c, p, a))) <= TotalSupply(Cur)

(***************************************************************************)
(* Properties of the administrative operations (under AdminSpec)           *)
(***************************************************************************)
\* C22: setAdapter, pause and unpause succeed only when called by the vault
\* owner; a call by anyone else (OwnableUnauthorizedAccount) and a setAdapter
\* with the zero address (InvalidAdapter) is rejected and leaves adapters[*],
\* the paused flag and all other state as they were; a successful
\* setAdapter(p, a) changes adapters[p] and nothing else, and a successful
\* pause or unpause changes the paused flag and nothing else.
C22_AdministrationOwnerOnly ==
    /\ \A c \in Accounts, p \in Protocols, a \in AdapterAddrs \cup {NULL} :
          LET res == VaultSetAdapter(Cur, c, p, a)
          IN /\ res.err = "none" <=> (c = Owner /\ a # NULL)
             /\ c # Owner => res.err = "OwnableUnauthorizedAccount"
             /\ (c = Owner /\ a = NULL) => res.err = "InvalidAdapter"
             /\ res.err # "none" => Aborts(res)
             /\ res.err = "none"
                   => /\ res.s.adapters[p] = a
                      /\ res.s = [Cur EXCEPT !.adapters = [@ EXCEPT ![p] = a]]
    /\ \A c \in Accounts :
          LET res == VaultPause(Cur, c)
          IN /\ res.err = "none" => c = Owner
             /\ c # Owner => res.err = "OwnableUnauthorizedAccount"
             /\ res.err # "none" => Aborts(res)
             /\ res.err = "none" => res.s = [Cur EXCEPT !.paused = TRUE]
    /\ \A c \in Accounts :
          LET res == VaultUnpause(Cur, c)
          IN /\ res.err = "none" => c = Owner
             /\ c # Owner => res.err = "OwnableUnauthorizedAccount"
             /\ res.err # "none" => Aborts(res)
             /\ res.err = "none" => res.s = [Cur EXCEPT !.paused = FALSE]

\* the owner has paused the vault and rebound the slot of the active
\* protocol, which held funds, to another adapter; the owner can rebind it
\* again and the depositor cannot
C22_Witness ==
    /\ paused
    /\ ActiveAdapter # AdapterFor(activeProtocol)
    /\ adapterBalance[AdapterFor(activeProtocol)] > 0
    /\ VaultSetAdapter(Cur, Owner, activeProtocol, AdapterFor(activeProtocol)).err
          = "none"
    /\ VaultSetAdapter(Cur, "u1", activeProtocol, AdapterFor(activeProtocol)).err
          = "OwnableUnauthorizedAccount"

(***************************************************************************)
(* Properties of the depositor-keyed state (under Spec)                    *)
(***************************************************************************)
\* the call res leaves every share balance and every principalDeposited
\* entry as it was
KeepsDepositorState(res) ==
    /\ Outcome(res).shares = shareBalance
    /\ Outcome(res).principal = principalDeposited

\* C23 (as stated): an account's share balance and its principalDeposited
\* entry change only by a successful deposit or withdraw: every call of
\* another operation of the vault (mint, redeem, transfer of shares,
\* rebalance, setAdapter, pause, unpause) leaves both unchanged for every
\* account.
C23_DepositorStateOnlyByDepositWithdraw ==
    /\ \A c \in Accounts, x \in Amounts, r \in Accounts, o \in Accounts :
          /\ KeepsDepositorState(VaultMint(Cur, c, x, r))
          /\ KeepsDepositorState(VaultRedeem(Cur, c, x, r, o))
          /\ KeepsDepositorState(ShareTransfer(Cur, c, r, x))
    /\ \A k \in RebalanceCalls : KeepsDepositorState(RebalanceOf(k))
    /\ \A c \in Accounts, p \in Protocols, a \in AdapterAddrs \cup {NULL} :
          KeepsDepositorState(VaultSetAdapter(Cur, c, p, a))
    /\ \A c \in Accounts :
          /\ KeepsDepositorState(VaultPause(Cur, c))
          /\ KeepsDepositorState(VaultUnpause(Cur, c))

(***************************************************************************)
(* Properties of validation, revocation and granting (under RegistrySpec). *)
(* A validation is read as <<keyId, target, functionSelector, value,       *)
(* signature, messageHash>>.                                               *)
(***************************************************************************)
ValidateCalls == KnownKeys \X Targets \X CallSelectors \X Values \X Signatures \X Messages

ValidateOf(k) == ValidateSessionKey(Registry, k[1], k[2], k[3], k[4], k[5], k[6], now)

\* the call made for an existing grant after the end of its window
Late(k) == k[1] \in DOMAIN sessionKeys /\ now > sessionKeys[k[1]].validUntil

\* C24 (as stated): a validateSessionKey call made for a grant when
\* now > validUntil always fails with SessionKeyExpired, whatever the
\* remaining budget and every other property of the grant and of the call.
C24_ExpiredAlwaysSessionKeyExpired ==
    \A k \in ValidateCalls : Late(k) => ValidateOf(k).err = "SessionKeyExpired"

\* C24 (amended): a validateSessionKey call made for a grant when
\* now > validUntil always fails and leaves the registry unchanged, whatever
\* the remaining budget and the target, selector, value, signature and hash
\* presented: with SessionKeyExpired if the grant has not been revoked, and
\* with SessionKeyNotActive if it has.
C24_ExpiredFailsBeforeBudget ==
    \A k \in ValidateCalls :
       LET res == ValidateOf(k)
       IN Late(k) =>
             /\ res.err = (IF sessionKeys[k[1]].isActive THEN "SessionKeyExpired"
                           ELSE "SessionKeyNotActive")
             /\ RegistryOutcome(res) = Registry

\* a grant that was validated up to its budget while its window was open is
\* now past validUntil and not revoked
C24_Witness ==
    \E id \in DOMAIN sessionKeys :
       /\ now > sessionKeys[id].validUntil
       /\ sessionKeys[id].isActive
       /\ sessionKeys[id].transactionCount > 0
       /\ sessionKeys[id].transactionCount = sessionKeys[id].maxTransactions

\* the account that granted keyId: msg.sender, the first component hashed
\* into the id
GranterOf(keyId) == keyId[1]

GrantCalls == Accounts \X (SessionKeyAddrs \cup {NULL}) \X {"vault", NULL} \X Selectors \X {1} \X (0..MaxTx) \X Times \X Times

GrantOf(k) == GrantSessionKey(Registry, k[1], k[2], k[3], k[4], k[5], k[6], k[7], k[8], now)

GrantId(k) == KeyIdOf(k[1], k[2], k[3], k[4], k[7], k[8])

\* the grant just made by the successful call res of k is validated at time
\* at, for the granted target and selector, value 0 and a signature of the
\* granted session key over hash h
ValidatedAt(res, k, at, h) ==
    ValidateSessionKey(res.s, GrantId(k), k[3], k[4], 0,
                       [signer |-> k[2], msg |-> h], h, at).err = "none"

\* there is a time, not before now and within the window of the grant just
\* made, at which it is validated
CanBeValidated(res, k) ==
    \E at \in Times, h \in Messages :
       at >= now /\ k[7] <= at /\ at <= k[8] /\ ValidatedAt(res, k, at, h)

\* what an accepted grant stores, and what a rejected one leaves
GrantStored(res, k) ==
    IF res.err # "none" THEN RegistryOutcome(res).keys = sessionKeys
                             /\ RegistryOutcome(res).user = userSessionKeys
    ELSE /\ res.s.keys[GrantId(k)]
               = [sessionKey |-> k[2], target |-> k[3], functionSelector |-> k[4],
                  valueLimit |-> k[5], maxTransactions |-> k[6],
                  transactionCount |-> 0, validAfter |-> k[7],
                  validUntil |-> k[8], isActive |-> TRUE]
         /\ \A other \in DOMAIN sessionKeys : res.s.keys[other] = sessionKeys[other]
         /\ res.s.user = [userSessionKeys EXCEPT ![k[1]] = Append(@, GrantId(k))]

\* C26 (as stated): grantSessionKey is accepted exactly when sessionKey and
\* target are non-null, validUntil > validAfter, validUntil is not in the past
\* (validUntil >= now) and no grant with the same id exists; every accepted
\* grant can be validated at some time within its window; a rejected grant
\* changes no state and an accepted one is stored active with
\* transactionCount = 0.
C26_AcceptedGrantsAreUsable ==
    \A k \in GrantCalls :
       LET res == GrantOf(k)
       IN /\ res.err = "none"
                <=> /\ k[2] # NULL /\ k[3] # NULL
                    /\ k[8] > k[7]
                    /\ k[8] >= now
                    /\ GrantId(k) \notin DOMAIN sessionKeys
          /\ res.err = "none" => CanBeValidated(res, k)
          /\ GrantStored(res, k)

\* C26 (amended): grantSessionKey is accepted exactly when sessionKey and
\* target are non-null, validUntil > validAfter, validUntil > now (a window
\* ending at the current timestamp is rejected as already expired) and no
\* grant with the same id exists; an accepted grant with maxTransactions > 0
\* can be validated at some time within its window, and one with
\* maxTransactions = 0 can never be validated; a rejected grant changes no
\* state and an accepted one is stored active with transactionCount = 0.
C26_AcceptedGrantsWithBudgetAreUsable ==
    \A k \in GrantCalls :
       LET res == GrantOf(k)
       IN /\ res.err = "none"
                <=> /\ k[2] # NULL /\ k[3] # NULL
                    /\ k[8] > k[7]
                    /\ k[8] > now
                    /\ GrantId(k) \notin DOMAIN sessionKeys
          /\ res.err = "none" => (CanBeValidated(res, k) <=> k[6] > 0)
          /\ GrantStored(res, k)

\* a grant accepted before its window opened has been validated in it
C26_Witness ==
    \E id \in DOMAIN sessionKeys :
       /\ sessionKeys[id].validAfter > 0
       /\ sessionKeys[id].transactionCount > 0
       /\ sessionKeys[id].isActive

\* the call res leaves the transactionCount of every stored grant as it was
CountsKept(res) ==
    LET after == IF res.err = "none" THEN res.s.keys ELSE sessionKeys
    IN \A id \in DOMAIN sessionKeys :
          after[id].transactionCount = sessionKeys[id].transactionCount

\* C27: a grant is stored with transactionCount = 0; a successful
\* validateSessionKey raises the count of its grant by exactly one and
\* changes nothing else; a failed one (for any reason, a signature that does
\* not recover to the session key included), a grantSessionKey and a
\* revokeSessionKey leave the count of every stored grant as it was.  So the
\* count of a grant is the number of successful validations made for it.
C27_UsageCountedBySuccessOnly ==
    /\ \A k \in ValidateCalls :
          LET res == ValidateOf(k)
          IN IF res.err = "none"
             THEN /\ res.s.keys[k[1]].transactionCount
                        = sessionKeys[k[1]].transactionCount + 1
                  /\ res.s = PutKey(Registry, k[1],
                         [sessionKeys[k[1]] EXCEPT !.transactionCount = @ + 1])
                  /\ Recover(k[6], k[5]) = sessionKeys[k[1]].sessionKey
             ELSE CountsKept(res)
    /\ \A k \in GrantCalls :
          LET res == GrantOf(k)
          IN /\ CountsKept(res)
             /\ res.err = "none" => res.s.keys[GrantId(k)].transactionCount = 0
    /\ \A c \in Accounts, id \in KnownKeys :
          CountsKept(RevokeSessionKey(Registry, c, id))

\* a grant that was validated and then revoked, within its window, shows the
\* count it had
C27_Witness ==
    \E id \in DOMAIN sessionKeys :
       /\ sessionKeys[id].transactionCount > 0
       /\ ~sessionKeys[id].isActive
       /\ now <= sessionKeys[id].validUntil

\* the fields of a grant that are fixed when it is made
Terms(data) ==
    <<data.sessionKey, data.target, data.functionSelector, data.valueLimit,
      data.maxTransactions, data.validAfter, data.validUntil>>

\* the step is a successful validateSessionKey for the grant id
ValidatedFor(id) ==
    \E k \in ValidateCalls :
       /\ k[1] = id
       /\ ValidateOf(k).err = "none"
       /\ sessionKeys' = ValidateOf(k).s.keys

\* the step is a successful revokeSessionKey of the grant id
RevokedBy(id) ==
    \E c \in Accounts :
       /\ RevokeSessionKey(Registry, c, id).err = "none"
       /\ sessionKeys' = RevokeSessionKey(Registry, c, id).s.keys

\* C28: the grant log is append-only: in every step a grant that exists still
\* exists afterwards with the same sessionKey, target, functionSelector,
\* valueLimit, maxTransactions, validAfter and validUntil; its
\* transactionCount changes only upwards and only by a successful validate
\* for it; its isActive changes only from true to false and only by a
\* successful revoke of it.
C28_GrantLogAppendOnly ==
    [][\A id \in DOMAIN sessionKeys :
          /\ id \in DOMAIN sessionKeys'
          /\ sessionKeys'[id].sessionKey # NULL
          /\ Terms(sessionKeys'[id]) = Terms(sessionKeys[id])
          /\ sessionKeys'[id].transactionCount >= sessionKeys[id].transactionCount
          /\ sessionKeys'[id].transactionCount # sessionKeys[id].transactionCount
                => ValidatedFor(id)
          /\ sessionKeys'[id].isActive => sessionKeys[id].isActive
          /\ sessionKeys'[id].isActive # sessionKeys[id].isActive
                => RevokedBy(id)]_vars

\* a grant that used its whole budget, was revoked and has expired is still
\* stored
C28_Witness ==
    \E id \in DOMAIN sessionKeys :
       /\ sessionKeys[id].sessionKey # NULL
       /\ sessionKeys[id].maxTransactions > 0
       /\ sessionKeys[id].transactionCount = sessionKeys[id].maxTransactions
       /\ ~sessionKeys[id].isActive
       /\ now > sessionKeys[id].validUntil

(***************************************************************************)
(* Properties of keys granted through the factory (under FactorySpec).     *)
(* A creation is read as <<caller, owner, sessionKeyAddress, vaultAddress, *)
(* saltNonce>>, with the Safe proxy factory returning a Safe.              *)
(***************************************************************************)
CreateCalls == Accounts \X Accounts \X SessionKeyAddrs \X {"vault"} \X SaltNonces

CreateOf(k) ==
    CreateSafeWithSessionKey(FactoryRegistry, k[1], k[2], k[3], k[4], k[5], TRUE, now)

\* calls presented for a key the factory granted
FactoryValidateCalls == Targets \X (CallSelectors \cup {FactorySelector}) \X Values \X Signatures \X Messages

\* C29 (as stated): for a session key granted through
\* createSafeWithSessionKey(owner, sessionKey, vault, salt), the wallet owner
\* passed as `owner` can successfully call revokeSessionKey on the returned
\* keyId, after which the key no longer validates.
C29_WalletOwnerCanRevoke ==
    \A k \in CreateCalls :
       LET res == CreateOf(k)
           keyId == FactoryKeyId(k[3], k[4], now)
           rev == RevokeSessionKey(res.s, k[2], keyId)
       IN res.err = "none"
             => /\ rev.err = "none"
                /\ \A c \in FactoryValidateCalls, at \in Times :
                      ValidateSessionKey(rev.s, keyId, c[1], c[2], c[3], c[4], c[5],
                                         at).err # "none"

\* validations presented for stored grants under FactorySpec
ReplayCalls == (DOMAIN sessionKeys) \X FactoryValidateCalls

\* the validation k made at time at on the registry r
Presented(r, k, at) ==
    ValidateSessionKey(r, k[1], k[2][1], k[2][2], k[2][3], k[2][4], k[2][5], at)

\* C30 (as stated): once validateSessionKey has accepted a
\* (messageHash, signature) pair for a grant, a later call presenting the
\* same pair (with the same or any other parameters, whoever the caller) is
\* rejected and leaves the grant's transactionCount as it was.
C30_NoSignatureReplay ==
    \A k \in ReplayCalls :
       LET first == Presented(Registry, k, now)
       IN first.err = "none"
             => \A at \in Times :
                   at >= now
                      => /\ Presented(first.s, k, at).err # "none"
                         /\ Presented(first.s, k, at).s.keys[k[1]].transactionCount
                               = first.s.keys[k[1]].transactionCount

(***************************************************************************)
(* Properties of the reallocation marker (under MarkerSpec)                *)
(***************************************************************************)
\* the call res leaves lastRebalanceBlock as it was
KeepsMarker(res) == Outcome(res).lastReb = lastRebalanceBlock

SignalOrder ==
    <<"SessionKeyNotFound", "SessionKeyNotActive", "SessionKeyNotYetValid",
      "SessionKeyExpired", "ExceededTransactionLimit", "ExceededValueLimit",
      "UnauthorizedTarget", "UnauthorizedFunction", "InvalidSignature">>

\* the conditions the validation k fails on, as positions of SignalOrder
FailingChecks(k) ==
    LET data == KeyData(Registry, k[1])
    IN {i \in 1..Len(SignalOrder) :
          \/ i = 1 /\ k[1] \notin DOMAIN sessionKeys
          \/ i = 2 /\ ~data.isActive
          \/ i = 3 /\ now < data.validAfter
          \/ i = 4 /\ now > data.validUntil
          \/ i = 5 /\ data.transactionCount >= data.maxTransactions
          \/ i = 6 /\ k[4] > data.valueLimit
          \/ i = 7 /\ k[2] # data.target
          \/ i = 8 /\ k[3] # data.functionSelector
          \/ i = 9 /\ ~(k[5].msg = k[6] /\ k[5].signer = data.sessionKey)}

\* C32: validateSessionKey answers with the signal of the first failing check
\* in the order not found, not active, not yet valid, expired, transaction
\* limit, value limit, wrong target, wrong function, invalid signature,
\* whatever else fails at the same time; the nine signals are pairwise
\* distinct, and it succeeds exactly when no check fails.
C32_FirstFailingCheckIsReported ==
    /\ \A i, j \in 1..Len(SignalOrder) : SignalOrder[i] = SignalOrder[j] => i = j
    /\ \A k \in ValidateCalls :
          LET failing == FailingChecks(k)
          IN IF failing = {} THEN ValidateOf(k).err = "none"
             ELSE \E i \in failing :
                     /\ \A j \in failing : i <= j
                     /\ ValidateOf(k).err = SignalOrder[i]

\* a grant that is revoked, expired and out of budget is presented for
\* another target and function, with too high a value and a signature of
\* another signer: six checks fail at once
C32_Witness ==
    \E k \in ValidateCalls :
       /\ k[1] \in DOMAIN sessionKeys
       /\ {2, 4, 5, 6, 7, 8, 9} \subseteq FailingChecks(k)
       /\ ValidateOf(k).err = "SessionKeyNotActive"

(***************************************************************************)
(* Properties of where the pooled funds sit (under PooledSpec)             *)
(***************************************************************************)
\* C33: between calls of deposit, withdraw and rebalance, successful or
\* aborted, the vault holds no idle assets and every adapter other than the
\* active one reports a balance of 0, so totalAssets() is the balance the
\* active adapter reports.
C33_FundsSitInActiveAdapter ==
    /\ usdcBalance[Vault] = 0
    /\ \A a \in AdapterAddrs \ {ActiveAdapter} : adapterBalance[a] = 0
    /\ TotalAssets(Cur) = AdapterBalanceOf(Cur, ActiveAdapter)

\* funds deposited under the default protocol have been reallocated and sit
\* in the adapter of another protocol
C33_Witness ==
    /\ activeProtocol # 0
    /\ lastRebalanceBlock > 0
    /\ totalPrincipal > 0
    /\ adapterBalance[ActiveAdapter] = totalPrincipal

\* C34: between calls of deposit, withdraw and rebalance by the two
\* depositors, with zero-slippage adapters whose balances only the vault
\* moves, convertToAssets(balanceOf(u)) equals principalDeposited[u] and
\* getYieldEarned(u) is 0 for every account u.
C34_NoYieldWithoutAccrual ==
    \A u \in Accounts :
       /\ ConvertToAssetsFloor(Cur, shareBalance[u]) = principalDeposited[u]
       /\ GetYieldEarned(Cur, u) = 0

\* both accounts hold principal in a vault that has been reallocated, and
\* one of them has been paid a withdrawal of the other's shares
C34_Witness ==
    /\ \A u \in Accounts : principalDeposited[u] > 0 /\ shareBalance[u] > 0
    /\ lastRebalanceBlock > 0
    /\ \E u \in Accounts : usdcBalance[u] + principalDeposited[u] > FundedWallet

(***************************************************************************)
(* Properties of rebinding an adapter slot (under AdminSpec)               *)
(***************************************************************************)
\* C35 (as stated): after a successful setAdapter by the owner on any slot,
\* the active one included, totalAssets() is what it was before the call and
\* every withdrawal of an amount within the value of the caller's shares that
\* succeeded before the call still succeeds.
C35_RebindingKeepsFundsReachable ==
    \A p \in Protocols, a \in AdapterAddrs :
       LET res == VaultSetAdapter(Cur, Owner, p, a)
       IN res.err = "none"
             => /\ TotalAssets(res.s) = TotalAssets(Cur)
                /\ \A u \in Accounts :
                      \A x \in 0..MaxWithdraw(u) :
                         VaultWithdraw(Cur, u, x, u, u).err = "none"
                            => VaultWithdraw(res.s, u, x, u, u).err = "none"

(***************************************************************************)
(* Properties of the emergency exit (under EmergencySpec)                  *)
(***************************************************************************)
\* C36 (as stated): after emergencyWithdraw on the active adapter,
\* totalAssets() is what it was before, every withdraw by a depositor of a
\* positive amount within the value of their shares succeeds, and so does a
\* rebalance that passes the gate.
C36_EmergencyExitKeepsDepositorsWhole ==
    LET e == AdapterEmergencyWithdraw(Cur, ActiveAdapter)
    IN /\ e.err = "none"
       /\ TotalAssets(e.s) = TotalAssets(Cur)
       /\ \A u \in Accounts :
             \A x \in 1..ConvertToAssetsFloor(e.s, shareBalance[u]) :
                VaultWithdraw(e.s, u, x, u, u).err = "none"
       /\ TotalAssets(e.s) > 0
             => \A p \in Protocols :
                   VaultRebalance(e.s, Owner, p, MIN_REBALANCE_THRESHOLD,
                                  MAX_GAS_COST_THRESHOLD, MaxBlock).err = "none"

(***************************************************************************)
(* Properties of withdrawing while paused (under MarkerSpec)               *)
(***************************************************************************)
\* the vault world with the pause flag set to flag, as a withdraw meets it
\* with the adapter's _shouldFailWithdraw at failW
WithPause(flag, failW) == [World(FALSE, failW) EXCEPT !.paused = flag]

\* C37: withdraw is not gated by the pause flag: every withdraw answers on
\* the paused vault as it does on the unpaused one, and where it succeeds its
\* effects are exactly the same (the flag aside); a rebalance on the paused
\* vault is rejected with EnforcedPause and changes nothing.
C37_WithdrawNotGatedByPause ==
    /\ \A c \in Accounts, x \in Amounts, r \in Accounts, o \in Accounts,
          fw \in BOOLEAN :
          LET held == VaultWithdraw(WithPause(TRUE, fw), c, x, r, o)
              free == VaultWithdraw(WithPause(FALSE, fw), c, x, r, o)
          IN /\ held.err = free.err
             /\ held.err = "none" => held.s = [free.s EXCEPT !.paused = TRUE]
    /\ paused =>
          \A c \in Accounts, p \in Protocols, o \in Offers, m \in Moods,
             blk \in Blocks :
             LET res == VaultRebalance(World(m[1], m[2]), c, p, o[1], o[2], blk)
             IN res.err = "EnforcedPause" /\ Aborts(res)

\* the vault is paused with funds in it: the depositor's withdraw of what
\* the shares are worth succeeds, and a rebalance passing the thresholds is
\* rejected
C37_Witness ==
    /\ paused
    /\ MaxWithdraw("u1") > 0
    /\ VaultWithdraw(Cur, "u1", MaxWithdraw("u1"), "u1", "u1").err = "none"
    /\ VaultRebalance(Cur, Owner, 1, MIN_REBALANCE_THRESHOLD,
                      MAX_GAS_COST_THRESHOLD, MaxBlock).err = "EnforcedPause"

C39_TimerMatchesReportedState ==
    /\ Quiescent => /\ Cardinality(runtime.timers) <= 1
                    /\ runtime.timers # {} => daemon.isRunning
    /\ ~runtime.lateCheck

====
